---- MODULE Spec2Model ----
(***************************************************************************)
(* Session and model-lifecycle orchestrator of the Mute backend            *)
(* (src/backend/main.py): ClientSession, MuteServer's message handlers,    *)
(* the audio watchdog and the keep-warm monitor, as asyncio tasks on one   *)
(* event loop.  Every action is one task step: from the point where the    *)
(* task resumes to the next await at which it can be suspended.            *)
(***************************************************************************)
EXTENDS Integers, Sequences, FiniteSets, TLC

\* ------------------------------------------------------------ constants
SAMPLE_RATE == 16000
MAX_BUFFER_SECONDS == 300
MAX_BUFFER_SAMPLES == SAMPLE_RATE * MAX_BUFFER_SECONDS
MODEL_PARAKEET == "parakeet"
WHISPER_MODELS == {"base", "large-v3-turbo"}
ValidModels == {MODEL_PARAKEET} \cup WHISPER_MODELS
WHISPER_AVAILABLE == TRUE
\* diarization_engine.py lines 16-21: pyannote.audio and torch can be imported
PYANNOTE_AVAILABLE == TRUE
max_retries == 2

\* ------------------------------------------------------------ bounds
NumSessions == 2
MaxStarts == 2
MaxChunks == 2
MaxEngines == 2
MaxOut == 6
MaxLoadOut == 3
MaxCapOut == 5
MaxEvictOut == 4
SmallChunk == 4800
BigChunk == 160000
TimeStep == 5000
MaxShareOut == 4
MaxDrainOut == 3
PartialChunk == 24000
MaxIntervalOut == 5
MaxWarmOut == 4
ShortStep == 4400
MaxWarmTime == 15000
MaxTime == 10000
MaxPinOut == 3
MaxInvalid == 2
MaxCalls == 4
MaxDestroyOut == 3
MaxT == 4
MaxTurns == 2
MaxDispatchOut == 5
MaxInferOut == 4
MaxKeepOut == 4
MaxOffOut == 2
MaxUnloadOut == 4

Sessions == 1..NumSessions
RequestModels == {MODEL_PARAKEET, "base"}
Texts == {"", "a"}
NoEngine == 0
NoModel == "none"

\* ------------------------------------------------------------ tasks
NoTask == <<"none", 0, 0>>
Handler(s) == <<"h", s, 0>>
Watchdog(s, k) == <<"w", s, k>>
\* the keep-warm monitor task t, known by the number it was created with
Monitor(t) == <<"kw", t.id, 0>>

VARIABLES
  clients,              \* MuteServer.clients / sessions: the connected sessions
  closed,               \* the connections that the client has closed
  sd,                   \* the shutdown: the signal's flag and the shutdown task
  invalid_json,         \* per connection: the "Invalid JSON message" lines logged
  bench,                \* direct calls of pure methods: those to make, those made
  diarization_loaded,   \* MuteServer.diarization_engine exists and is_loaded
  sess,                 \* ClientSession fields, per session
  slock,                \* ClientSession.lock: holder and FIFO waiters
  hpc,                  \* per connection: where its message handler is suspended
  hloc,                 \* per connection: the handler's local variables
  wd,                   \* per session: the watchdog tasks created so far
  out,                  \* per connection: messages sent to the client, in order
  engineObjs,           \* the engine objects created so far (the heap)
  engines,              \* MuteServer.engines: model id -> engine object
  loaded_models,        \* MuteServer.loaded_models
  default_model,        \* MuteServer.default_model
  mlock,                \* MuteServer.model_lock: holder and FIFO waiters
  downloaded,           \* ModelManager: the Parakeet file is in the cache
  last_inference_time,  \* MuteServer.last_inference_time (None = no entry)
  now,                  \* time.time()
  keep_warm_enabled, keep_warm_models, keep_warm_duration,
  kw,                   \* MuteServer.keep_warm_task: the monitor task it refers to
  lost                  \* the monitor tasks that keep_warm_task no longer refers to

clientVars == <<clients, closed, sd, invalid_json, bench, diarization_loaded>>
vars == <<clientVars, sess, slock, hpc, hloc, wd, out, engineObjs, engines,
          loaded_models, default_model, mlock, downloaded, last_inference_time,
          now, keep_warm_enabled, keep_warm_models, keep_warm_duration, kw, lost>>

sessVars == <<sess, slock, hpc, hloc, wd, out>>
poolVars == <<engineObjs, engines, loaded_models, default_model, mlock, downloaded>>
warmVars == <<keep_warm_enabled, keep_warm_models, keep_warm_duration, kw, lost>>

None == -1

\* ------------------------------------------------------------ asyncio.Lock
FreeLock == [holder |-> NoTask, waiters |-> <<>>]
\* Lock.acquire() returns at once: not locked and no waiter queued before
IsFree(l) == l.holder = NoTask /\ l.waiters = <<>>
\* Lock.acquire() has to wait: the task joins the FIFO of waiters
Enqueue(l, t) == [l EXCEPT !.waiters = Append(@, t)]
\* Lock.release() wakes the first waiter, which then owns the lock
Grantable(l, t) == l.holder = NoTask /\ l.waiters # <<>> /\ Head(l.waiters) = t
\* the lock once t owns it: taken free, taken as first waiter, or already held
Hold(l, t) ==
  IF l.holder = t THEN l
  ELSE IF l.waiters # <<>> /\ Head(l.waiters) = t
       THEN [holder |-> t, waiters |-> Tail(l.waiters)]
       ELSE [l EXCEPT !.holder = t]
Release(l) == [l EXCEPT !.holder = NoTask]
RECURSIVE Without(_, _)
Without(q, t) ==
  IF q = <<>> THEN <<>>
  ELSE IF Head(q) = t THEN Without(Tail(q), t)
       ELSE <<Head(q)>> \o Without(Tail(q), t)
\* a cancelled waiter leaves the queue
Dequeue(l, t) == [l EXCEPT !.waiters = Without(@, t)]

\* ------------------------------------------------------------ ClientSession
NewSession ==
  [is_recording |-> FALSE, audio_chunks |-> <<>>, total_samples |-> 0,
   continuous_mode |-> FALSE, last_partial_text |-> "",
   active_engine |-> NoEngine, active_model |-> NoModel,
   has_done_first_interval |-> FALSE,
   audio_watchdog_task |-> 0, first_audio_received |-> FALSE]

AddAudioAcceptsAlways(total, n) == TRUE
\* add_audio: the memory limit check
AddAudioAccepts(total, n) == ~(total + n > MAX_BUFFER_SAMPLES)

add_audio_uncounted(S, n) ==
  [S EXCEPT !.audio_chunks = Append(@, n),
            !.total_samples = IF AddAudioAccepts(S.total_samples, n)
                              THEN S.total_samples + n ELSE S.total_samples]
\* add_audio: the session after the call (unchanged when the chunk is rejected)
add_audio(S, n) ==
  IF AddAudioAccepts(S.total_samples, n)
  THEN [S EXCEPT !.audio_chunks = Append(@, n), !.total_samples = S.total_samples + n]
  ELSE S

clear_audio(S) == [S EXCEPT !.audio_chunks = <<>>, !.total_samples = 0]

\* ------------------------------------------------------------ engines
NewEngine(m) ==
  [model |-> m, is_loaded |-> TRUE, session_active |-> FALSE, last_transcription |-> ""]
start_session(E, e) ==
  IF e = NoEngine THEN E
  ELSE [E EXCEPT ![e].session_active = TRUE, ![e].last_transcription = ""]
end_session(E, e) ==
  IF e = NoEngine THEN E
  ELSE [E EXCEPT ![e].session_active = FALSE, ![e].last_transcription = ""]

\* ------------------------------------------------------------ messages
Msg(type, arg) == [type |-> type, arg |-> arg]
Send(s, m) == [out EXCEPT ![s] = Append(@, m)]
NoAudioTimeout == Msg("error", "no_audio_timeout")
TooLong == Msg("error", "Recording too long (max 5 minutes). Stopping.")

\* ------------------------------------------------------------ tasks' state
NoLocals == [model |-> NoModel, continuous |-> FALSE, diarize |-> FALSE,
             attempt |-> 0, chunk |-> 0,
             nested |-> FALSE, todo |-> <<>>, engine_called |-> FALSE,
             raised |-> FALSE, result |-> <<>>]
NewWatchdog == [pc |-> "sleep", must_cancel |-> FALSE]

\* task.cancel() guarded by "task and not task.done()"
CancelWatchdog(W, k) ==
  IF k # 0 /\ W[k].pc # "done" THEN [W EXCEPT ![k].must_cancel = TRUE] ELSE W

\* ------------------------------------------------------------ Init
InitPool ==
  /\ engineObjs = <<>>
  /\ engines = [m \in ValidModels |-> NoEngine]
  /\ loaded_models = {}
  /\ default_model = MODEL_PARAKEET
  /\ mlock = FreeLock
  /\ last_inference_time = [m \in ValidModels |-> None]
  /\ now = 0
  /\ keep_warm_enabled = FALSE
  /\ keep_warm_models = {}
  /\ keep_warm_duration = "4h"
  /\ kw = [pc |-> "none", must_cancel |-> FALSE, todo |-> <<>>, id |-> 0]
  /\ lost = <<>>
  /\ diarization_loaded = FALSE

\* no shutdown signal yet, the endpoint is listening
NoShutdown == [is_shutting_down |-> FALSE, pc |-> "none", todo |-> <<>>,
               listening |-> TRUE]

\* no direct call is to be made
NoBench == [todo |-> <<>>, done |-> <<>>]

InitSessions(C) ==
  /\ clients = C
  /\ closed = {}
  /\ sd = NoShutdown
  /\ invalid_json = [s \in Sessions |-> 0]
  /\ bench = NoBench
  /\ sess = [s \in Sessions |-> NewSession]
  /\ slock = [s \in Sessions |-> FreeLock]
  /\ hpc = [s \in Sessions |-> "idle"]
  /\ hloc = [s \in Sessions |-> NoLocals]
  /\ wd = [s \in Sessions |-> <<>>]
  /\ out = [s \in Sessions |-> <<>>]

\* ------------------------------------------------------------ handle_client
AwaitsMessageAlways(s) == TRUE
\* "async for message in websocket: await self.handle_message(...)": the next
\* message is taken when the handler of the one before has returned, and it is
\* dispatched unless is_shutting_down is set (line 471)
AwaitsMessage(s) == hpc[s] = "idle" /\ ~sd.is_shutting_down

\* ------------------------------------------------------------ load_model
\* load_model: "Check if already loaded"
AlreadyLoaded(m) == m \in loaded_models
\* load_model: the checks that raise before the engine's load is awaited
LoadRaisesAtOnce(m) ==
  \/ m = MODEL_PARAKEET /\ ~downloaded
  \/ m \in WHISPER_MODELS /\ ~WHISPER_AVAILABLE
  \/ m \notin ValidModels
\* the in-flight external loads (engine.load_model awaited in the executor)
LoadingPcs == {"start_loading", "download_loading", "load_loading", "warm_loading"}
LoadsInFlight(m) == {s \in Sessions : hpc[s] \in LoadingPcs /\ hloc[s].model = m}
EnginesOf(m) == {e \in 1..Len(engineObjs) : engineObjs[e].model = m}

\* load_model after engine.load_model() returned: record the engine
DefaultAfterLoad(m, loaded) ==
  IF default_model = MODEL_PARAKEET /\ m \in loaded /\ Cardinality(loaded) = 1
  THEN m ELSE default_model
LoadSucceeded(m) ==
  /\ Len(engineObjs) < MaxEngines
  /\ engineObjs' = Append(engineObjs, NewEngine(m))
  /\ engines' = [engines EXCEPT ![m] = Len(engineObjs) + 1]
  /\ loaded_models' = loaded_models \cup {m}
  /\ default_model' = DefaultAfterLoad(m, loaded_models \cup {m})


\* what no session handler or watchdog step changes
envVars == <<clientVars, downloaded, now, warmVars>>
mapVars == <<engines, loaded_models, default_model>>

\* "if not session.is_recording: return" of handle_audio, handle_stop and
\* handle_transcribe_interval (lines 662, 731, 792)
ReturnsNever(S) == FALSE
ReturnsAtOnce(S) == ~S.is_recording

\* ------------------------------------------------------------ handle_start
Locals(m, c, a, d) ==
  [NoLocals EXCEPT !.model = m, !.continuous = c, !.attempt = a, !.diarize = d]

\* lines 609-617: the diarization model is loaded on demand, which suspends
\* the handler
LoadsDiarization(d) == d /\ PYANNOTE_AVAILABLE /\ ~diarization_loaded

\* lines 591-632: check the engine reference, set the session state, load the
\* diarization model when it is wanted and missing, start the engine session,
\* leave the session lock, send recording_ready
StartBind(s, m, c, d) ==
  LET e == engines[m] IN
  /\ hloc' = [hloc EXCEPT ![s] = Locals(m, c, 0, d)]
  /\ IF e = NoEngine \/ ~engineObjs[e].is_loaded
     THEN /\ out' = Send(s, Msg("error", "not loaded"))
          /\ hpc' = [hpc EXCEPT ![s] = "start_err_send"]
          /\ slock' = [slock EXCEPT ![s] = Hold(@, Handler(s))]
          /\ UNCHANGED <<sess, engineObjs>>
     ELSE /\ sess' = [sess EXCEPT ![s] =
                        [clear_audio(@) EXCEPT !.active_engine = e, !.active_model = m,
                           !.is_recording = TRUE,
                           !.continuous_mode = c,
                           !.last_partial_text = "",
                           !.has_done_first_interval = FALSE]]
          /\ IF LoadsDiarization(d)
             THEN /\ slock' = [slock EXCEPT ![s] = Hold(@, Handler(s))]
                  /\ hpc' = [hpc EXCEPT ![s] = "start_diar_loading"]
                  /\ UNCHANGED <<engineObjs, out>>
             ELSE /\ engineObjs' = start_session(engineObjs, e)
                  /\ slock' = [slock EXCEPT ![s] = Release(Hold(@, Handler(s)))]
                  /\ out' = Send(s, Msg("recording_ready", m))
                  /\ hpc' = [hpc EXCEPT ![s] = "start_send_ready"]

\* one pass of the retry loop (lines 565-582): load_model(m) as attempt a, up to
\* the await it stops at
StartAttempt(s, m, c, a, d) ==
  IF AlreadyLoaded(m)
  THEN /\ out' = Send(s, Msg("model_loaded", m))
       /\ hpc' = [hpc EXCEPT ![s] = "start_sent_loaded"]
       /\ hloc' = [hloc EXCEPT ![s] = Locals(m, c, a, d)]
  ELSE IF ~LoadRaisesAtOnce(m)
  THEN /\ hpc' = [hpc EXCEPT ![s] = "start_loading"]
       /\ hloc' = [hloc EXCEPT ![s] = Locals(m, c, a, d)]
       /\ out' = out
  ELSE IF a + 1 < max_retries
  THEN /\ hpc' = [hpc EXCEPT ![s] = "start_retry_sleep"]
       /\ hloc' = [hloc EXCEPT ![s] = Locals(m, c, a + 1, d)]
       /\ out' = out
  ELSE /\ out' = Send(s, Msg("error", "not available"))
       /\ hpc' = [hpc EXCEPT ![s] = "start_err_send"]
       /\ hloc' = [hloc EXCEPT ![s] = Locals(m, c, a, d)]

\* async with self.model_lock entered (lines 561-589)
StartModelLocked(s, m, c, d) ==
  /\ UNCHANGED mapVars
  /\ IF engines[m] = NoEngine
     THEN /\ mlock' = Hold(mlock, Handler(s))
          /\ slock' = [slock EXCEPT ![s] = Hold(@, Handler(s))]
          /\ StartAttempt(s, m, c, 0, d)
          /\ UNCHANGED <<sess, engineObjs>>
     ELSE /\ mlock' = Release(Hold(mlock, Handler(s)))
          /\ StartBind(s, m, c, d)

ModelLockIgnored(l) == TRUE
\* async with self.model_lock can be entered without waiting
ModelLockFree(l) == IsFree(l)

\* async with session.lock entered (lines 556-560): the requested model is read
\* (m0 = NoModel: no "model" key, so default_model), then the model lock is taken
StartLocked(s, m0, c, d) ==
  LET m == IF m0 = NoModel THEN default_model ELSE m0 IN
  IF ModelLockFree(mlock)
  THEN StartModelLocked(s, m, c, d)
  ELSE /\ slock' = [slock EXCEPT ![s] = Hold(@, Handler(s))]
       /\ mlock' = Enqueue(mlock, Handler(s))
       /\ hpc' = [hpc EXCEPT ![s] = "start_mlock"]
       /\ hloc' = [hloc EXCEPT ![s] = Locals(m, c, 0, d)]
       /\ UNCHANGED <<sess, engineObjs, out, mapVars>>

\* the client sends start{settings}
StartRequest(s, m, c, d) ==
  /\ s \in clients /\ AwaitsMessage(s)
  /\ Len(wd[s]) < MaxStarts /\ Len(out[s]) < MaxOut
  /\ IF IsFree(slock[s])
     THEN StartLocked(s, m, c, d)
     ELSE /\ slock' = [slock EXCEPT ![s] = Enqueue(@, Handler(s))]
          /\ hpc' = [hpc EXCEPT ![s] = "start_slock"]
          /\ hloc' = [hloc EXCEPT ![s] = Locals(m, c, 0, d)]
          /\ UNCHANGED <<sess, engineObjs, out, mapVars, mlock>>
  /\ UNCHANGED <<wd, last_inference_time, envVars>>

\* start without enable_diarization, and with it
RecvStart(s, m, c) == StartRequest(s, m, c, FALSE)
RecvStartDiarized(s, m, c) == StartRequest(s, m, c, TRUE)

\* diarization_engine.load_model() returned or raised (lines 614-632): start the
\* engine session, leave the session lock, send recording_ready
StartDiarizationLoaded(s, ok) ==
  /\ hpc[s] = "start_diar_loading"
  /\ diarization_loaded' = (diarization_loaded \/ ok)
  /\ engineObjs' = start_session(engineObjs, sess[s].active_engine)
  /\ slock' = [slock EXCEPT ![s] = Release(@)]
  /\ out' = Send(s, Msg("recording_ready", hloc[s].model))
  /\ hpc' = [hpc EXCEPT ![s] = "start_send_ready"]
  /\ UNCHANGED <<clients, closed, sd, invalid_json, bench, sess, hloc, wd, mapVars, mlock,
                 downloaded, last_inference_time, now, warmVars>>

StartGotSessionLock(s) ==
  /\ hpc[s] = "start_slock" /\ Grantable(slock[s], Handler(s))
  /\ StartLocked(s, hloc[s].model, hloc[s].continuous, hloc[s].diarize)
  /\ UNCHANGED <<wd, last_inference_time, envVars>>

StartGotModelLock(s) ==
  /\ hpc[s] = "start_mlock" /\ Grantable(mlock, Handler(s))
  /\ StartModelLocked(s, hloc[s].model, hloc[s].continuous, hloc[s].diarize)
  /\ UNCHANGED <<wd, last_inference_time, envVars>>

\* engine.load_model() returned or raised (the executor's outcome is external)
StartLoadDone(s, ok) ==
  /\ hpc[s] = "start_loading"
  /\ LET m == hloc[s].model
         a == hloc[s].attempt IN
     IF ok
     THEN /\ LoadSucceeded(m)
          /\ out' = Send(s, Msg("model_loaded", m))
          /\ hpc' = [hpc EXCEPT ![s] = "start_sent_loaded"]
          /\ hloc' = hloc
     ELSE /\ IF a + 1 < max_retries
             THEN /\ hpc' = [hpc EXCEPT ![s] = "start_retry_sleep"]
                  /\ hloc' = [hloc EXCEPT ![s].attempt = a + 1]
                  /\ out' = out
             ELSE /\ out' = Send(s, Msg("error", "not available"))
                  /\ hpc' = [hpc EXCEPT ![s] = "start_err_send"]
                  /\ hloc' = hloc
          /\ UNCHANGED <<engineObjs, mapVars>>
  /\ UNCHANGED <<sess, slock, wd, mlock, last_inference_time, envVars>>

\* gc.collect(), asyncio.sleep(1) are over: the next attempt
StartRetry(s) ==
  /\ hpc[s] = "start_retry_sleep"
  /\ StartAttempt(s, hloc[s].model, hloc[s].continuous, hloc[s].attempt, hloc[s].diarize)
  /\ UNCHANGED <<sess, slock, wd, engineObjs, mapVars, mlock, last_inference_time,
                 envVars>>

\* model_loaded was sent: leave the retry loop and the model lock, bind the engine
StartSentLoaded(s) ==
  /\ hpc[s] = "start_sent_loaded"
  /\ mlock' = Release(mlock)
  /\ UNCHANGED mapVars
  /\ StartBind(s, hloc[s].model, hloc[s].continuous, hloc[s].diarize)
  /\ UNCHANGED <<wd, last_inference_time, envVars>>

\* send_error returned: return, leaving the with-blocks (the locks that are held)
StartErrSent(s) ==
  /\ hpc[s] = "start_err_send"
  /\ slock' = [slock EXCEPT ![s] = Release(@)]
  /\ mlock' = IF mlock.holder = Handler(s) THEN Release(mlock) ELSE mlock
  /\ hpc' = [hpc EXCEPT ![s] = "idle"]
  /\ hloc' = [hloc EXCEPT ![s] = NoLocals]
  /\ UNCHANGED <<sess, wd, out, engineObjs, mapVars, last_inference_time, envVars>>

\* recording_ready was sent: arm the audio watchdog (lines 634-638)
StartReadySent(s) ==
  /\ hpc[s] = "start_send_ready"
  /\ wd' = [wd EXCEPT ![s] = Append(@, NewWatchdog)]
  /\ sess' = [sess EXCEPT ![s].first_audio_received = FALSE,
                          ![s].audio_watchdog_task = Len(wd[s]) + 1]
  /\ hpc' = [hpc EXCEPT ![s] = "idle"]
  /\ hloc' = [hloc EXCEPT ![s] = NoLocals]
  /\ UNCHANGED <<slock, out, engineObjs, mapVars, mlock, last_inference_time, envVars>>

\* ------------------------------------------------------------ _audio_watchdog
\* lines 649-653, under the session lock: "Cleanup the recording state"
WatchdogCleanup(s, k) ==
  /\ sess' = [sess EXCEPT ![s] = [clear_audio(@) EXCEPT !.is_recording = FALSE]]
  /\ engineObjs' = end_session(engineObjs, sess[s].active_engine)
  /\ slock' = [slock EXCEPT ![s] = Release(Hold(@, Watchdog(s, k)))]
  /\ wd' = [wd EXCEPT ![s][k] = [pc |-> "done", must_cancel |-> FALSE]]

\* async with session.lock: entered at once when free, else the task waits
WatchdogLock(s, k) ==
  IF IsFree(slock[s])
  THEN WatchdogCleanup(s, k)
  ELSE /\ slock' = [slock EXCEPT ![s] = Enqueue(@, Watchdog(s, k))]
       /\ wd' = [wd EXCEPT ![s][k] = [pc |-> "lock", must_cancel |-> FALSE]]
       /\ UNCHANGED <<sess, engineObjs>>

\* asyncio.sleep(timeout_seconds) is over: the check of line 645, then send_error
WatchdogTimeout(s, k) ==
  /\ k \in 1..Len(wd[s]) /\ wd[s][k].pc = "sleep" /\ ~wd[s][k].must_cancel
  /\ IF sess[s].is_recording /\ ~sess[s].first_audio_received
     THEN /\ out' = Send(s, NoAudioTimeout)
          /\ wd' = [wd EXCEPT ![s][k].pc = "sending"]
     ELSE /\ out' = out
          /\ wd' = [wd EXCEPT ![s][k].pc = "done"]
  /\ UNCHANGED <<sess, slock, hpc, hloc, engineObjs, mapVars, mlock,
                 last_inference_time, envVars>>

\* send_error returned
WatchdogSent(s, k) ==
  /\ k \in 1..Len(wd[s]) /\ wd[s][k].pc = "sending" /\ ~wd[s][k].must_cancel
  /\ WatchdogLock(s, k)
  /\ UNCHANGED <<hpc, hloc, out, mapVars, mlock, last_inference_time, envVars>>

\* the session lock was released to the waiting watchdog
WatchdogGotLock(s, k) ==
  /\ k \in 1..Len(wd[s]) /\ wd[s][k].pc = "lock" /\ ~wd[s][k].must_cancel
  /\ Grantable(slock[s], Watchdog(s, k))
  /\ WatchdogCleanup(s, k)
  /\ UNCHANGED <<hpc, hloc, out, mapVars, mlock, last_inference_time, envVars>>

CancelAlwaysSwallowed(pc) == FALSE
\* a CancelledError thrown into the watchdog at its await ends the task when it
\* reaches "except asyncio.CancelledError" (from asyncio.sleep and Lock.acquire);
\* thrown into send_error's websocket.send it is caught by the bare "except: pass"
\* (line 1209) and the watchdog goes on
CancelReachesHandler(pc) == pc # "sending"

\* the event loop resumes a cancelled watchdog with CancelledError
WatchdogCancelled(s, k) ==
  /\ k \in 1..Len(wd[s]) /\ wd[s][k].must_cancel /\ wd[s][k].pc # "done"
  /\ IF CancelReachesHandler(wd[s][k].pc)
     THEN /\ wd' = [wd EXCEPT ![s][k] = [pc |-> "done", must_cancel |-> FALSE]]
          /\ slock' = [slock EXCEPT ![s] = Dequeue(@, Watchdog(s, k))]
          /\ UNCHANGED <<sess, engineObjs>>
     ELSE WatchdogLock(s, k)
  /\ UNCHANGED <<hpc, hloc, out, mapVars, mlock, last_inference_time, envVars>>

\* ------------------------------------------------------------ handle_audio
\* buffer_seconds >= 1.5 and (buffer_seconds % 1.5) < 0.1, in samples
PartialDue(total) ==
  /\ 2 * total >= 3 * SAMPLE_RATE
  /\ 10 * ((2 * total) % (3 * SAMPLE_RATE)) < 2 * SAMPLE_RATE

\* lines 701-711: the snapshot under the session lock (L: the lock when entered
\* and left again), then transcribe_incremental up to its await
AudioSnapshot(s, S, L) ==
  LET E == engineObjs[S.active_engine]
      min_samples == SAMPLE_RATE \div 2
      off == ~E.is_loaded \/ ~E.session_active
      text == IF off THEN "" ELSE E.last_transcription IN
  /\ slock' = [slock EXCEPT ![s] = L]
  /\ IF ~off /\ ~(S.total_samples < min_samples)
     THEN /\ hpc' = [hpc EXCEPT ![s] = "audio_transcribing"]
          /\ hloc' = [hloc EXCEPT ![s] = NoLocals]
          /\ sess' = [sess EXCEPT ![s] = S]
          /\ out' = out
     ELSE IF text # "" /\ text # S.last_partial_text
     THEN /\ sess' = [sess EXCEPT ![s] = [S EXCEPT !.last_partial_text = text]]
          /\ out' = Send(s, Msg("partial", text))
          /\ hpc' = [hpc EXCEPT ![s] = "audio_partial_send"]
          /\ hloc' = [hloc EXCEPT ![s] = NoLocals]
     ELSE /\ hpc' = [hpc EXCEPT ![s] = "idle"]
          /\ hloc' = [hloc EXCEPT ![s] = NoLocals]
          /\ sess' = [sess EXCEPT ![s] = S]
          /\ out' = out

\* lines 681-699, async with session.lock entered: S0 is the session as the
\* handler left it before the lock
AudioLocked(s, n, S0) ==
  LET S == add_audio(S0, n)
      L == Release(Hold(slock[s], Handler(s))) IN
  IF ~AddAudioAccepts(S0.total_samples, n)
  THEN /\ slock' = [slock EXCEPT ![s] = Hold(@, Handler(s))]
       /\ sess' = [sess EXCEPT ![s] = S0]
       /\ out' = Send(s, TooLong)
       /\ hpc' = [hpc EXCEPT ![s] = "audio_full_send"]
       /\ hloc' = [hloc EXCEPT ![s] = NoLocals]
  ELSE IF S.continuous_mode /\ S.active_engine # NoEngine /\ PartialDue(S.total_samples)
  THEN IF IsFree(L)
       THEN AudioSnapshot(s, S, L)
       ELSE /\ slock' = [slock EXCEPT ![s] = Enqueue(L, Handler(s))]
            /\ sess' = [sess EXCEPT ![s] = S]
            /\ hpc' = [hpc EXCEPT ![s] = "audio_slock2"]
            /\ hloc' = [hloc EXCEPT ![s] = NoLocals]
            /\ out' = out
  ELSE /\ slock' = [slock EXCEPT ![s] = L]
       /\ sess' = [sess EXCEPT ![s] = S]
       /\ hpc' = [hpc EXCEPT ![s] = "idle"]
       /\ hloc' = [hloc EXCEPT ![s] = NoLocals]
       /\ out' = out

\* the client sends audio{data} with n samples (lines 662-670, then the lock)
RecvAudio(s, n) ==
  /\ s \in clients /\ AwaitsMessage(s)
  /\ IF ReturnsAtOnce(sess[s])
     THEN UNCHANGED <<sess, wd, slock, hpc, hloc, out>>
     ELSE LET first == ~sess[s].first_audio_received
              S0 == [sess[s] EXCEPT !.first_audio_received = TRUE] IN
          /\ wd' = IF first
                   THEN [wd EXCEPT ![s] = CancelWatchdog(@, sess[s].audio_watchdog_task)]
                   ELSE wd
          /\ IF IsFree(slock[s])
             THEN AudioLocked(s, n, S0)
             ELSE /\ slock' = [slock EXCEPT ![s] = Enqueue(@, Handler(s))]
                  /\ sess' = [sess EXCEPT ![s] = S0]
                  /\ hpc' = [hpc EXCEPT ![s] = "audio_slock"]
                  /\ hloc' = [hloc EXCEPT ![s] = [NoLocals EXCEPT !.chunk = n]]
                  /\ out' = out
  /\ UNCHANGED <<engineObjs, mapVars, mlock, last_inference_time, envVars>>

AudioGotSessionLock(s) ==
  /\ hpc[s] = "audio_slock" /\ Grantable(slock[s], Handler(s))
  /\ AudioLocked(s, hloc[s].chunk, sess[s])
  /\ UNCHANGED <<wd, engineObjs, mapVars, mlock, last_inference_time, envVars>>

AudioGotSessionLock2(s) ==
  /\ hpc[s] = "audio_slock2" /\ Grantable(slock[s], Handler(s))
  /\ AudioSnapshot(s, sess[s], Release(Hold(slock[s], Handler(s))))
  /\ UNCHANGED <<wd, engineObjs, mapVars, mlock, last_inference_time, envVars>>

\* line 703, "Only send if text changed": the partial text r is sent
SendsNonEmpty(r, S) == r # ""
SendsPartial(r, S) == r # "" /\ r # S.last_partial_text

\* the executor returned text ("" also stands for an exception, which
\* transcribe_incremental catches)
AudioTranscribed(s, text) ==
  /\ hpc[s] = "audio_transcribing"
  /\ LET e == sess[s].active_engine
         r == IF text # "" THEN text ELSE engineObjs[e].last_transcription IN
     /\ engineObjs' = IF text # "" THEN [engineObjs EXCEPT ![e].last_transcription = text]
                      ELSE engineObjs
     /\ IF SendsPartial(r, sess[s])
        THEN /\ sess' = [sess EXCEPT ![s].last_partial_text = r]
             /\ out' = Send(s, Msg("partial", r))
             /\ hpc' = [hpc EXCEPT ![s] = "audio_partial_send"]
        ELSE /\ hpc' = [hpc EXCEPT ![s] = "idle"]
             /\ UNCHANGED <<sess, out>>
  /\ UNCHANGED <<hloc, slock, wd, mapVars, mlock, last_inference_time, envVars>>

\* partial was sent
AudioPartialSent(s) ==
  /\ hpc[s] = "audio_partial_send"
  /\ hpc' = [hpc EXCEPT ![s] = "idle"]
  /\ UNCHANGED <<sess, slock, hloc, wd, out, engineObjs, mapVars, mlock,
                 last_inference_time, envVars>>

\* ------------------------------------------------------------ handle_stop
\* "If final is empty but we have a last partial result, use that"
FinalText(text, e) ==
  IF text = "" /\ engineObjs[e].last_transcription # ""
  THEN engineObjs[e].last_transcription ELSE text

\* the positions of a handler inside handle_stop's locked section
StopPcs == {"stop_transcribing", "stop_final_send"}
\* line 739: the final transcription is asked of the engine
StopTranscribes(S) == S.total_samples > 0 /\ S.active_engine # NoEngine

\* what a transcription in the executor ends with: a text or an exception
Raises == "<exception>"
Outcomes == Texts \cup {Raises}
\* _transcribe_sync and transcribe_final: "except Exception: ... return ''"
CaughtByEngine(o) == IF o = Raises THEN "" ELSE o
\* transcribe_final returns "" without going to the executor
FinalReturnsAtOnce(E, n) == ~E.is_loaded \/ n < 1600

\* lines 753-764 and 770-778: websocket.send of the final.  On a connection the
\* client has closed it raises at once: send_error in the except branch fails
\* silently, then the finally block runs and the handler returns.
\* S: the session as the handler has left it; called, raised: transcribe_final
\* was called by this handler, the executor's call raised
StopReply(s, S, text, called, raised) ==
  IF s \in closed
  THEN /\ sess' = [sess EXCEPT ![s] = clear_audio(S)]
       /\ engineObjs' = end_session(engineObjs, S.active_engine)
       /\ slock' = [slock EXCEPT ![s] = Release(Hold(@, Handler(s)))]
       /\ hpc' = [hpc EXCEPT ![s] = "idle"]
       /\ hloc' = [hloc EXCEPT ![s] = NoLocals]
       /\ out' = out
  ELSE /\ sess' = [sess EXCEPT ![s] = S]
       /\ engineObjs' = engineObjs
       /\ slock' = [slock EXCEPT ![s] = Hold(@, Handler(s))]
       /\ hpc' = [hpc EXCEPT ![s] = "stop_final_send"]
       /\ hloc' = [hloc EXCEPT ![s].engine_called = called, ![s].raised = raised]
       /\ out' = Send(s, Msg("final", text))

\* async with session.lock entered (lines 726-764, up to the first await)
StopLocked(s) ==
  LET S == sess[s]
      e == S.active_engine
      S1 == [S EXCEPT !.is_recording = FALSE] IN
  IF ReturnsAtOnce(S)
  THEN /\ slock' = [slock EXCEPT ![s] = Release(Hold(@, Handler(s)))]
       /\ hpc' = [hpc EXCEPT ![s] = "idle"]
       /\ UNCHANGED <<sess, out, hloc, engineObjs>>
  ELSE IF ~StopTranscribes(S)
  THEN StopReply(s, S1, "", FALSE, FALSE)
  ELSE IF FinalReturnsAtOnce(engineObjs[e], S.total_samples)
  THEN StopReply(s, S1, FinalText("", e), TRUE, FALSE)
  ELSE /\ slock' = [slock EXCEPT ![s] = Hold(@, Handler(s))]
       /\ sess' = [sess EXCEPT ![s] = S1]
       /\ hpc' = [hpc EXCEPT ![s] = "stop_transcribing"]
       /\ hloc' = [hloc EXCEPT ![s].engine_called = TRUE]
       /\ UNCHANGED <<out, engineObjs>>

\* async with session.lock in handle_stop can be entered without waiting;
\* asyncio.Lock is not reentrant: a holder that acquires again waits like any task
StopMayEnter(l, t) == IsFree(l)

\* handle_stop from its first line: cancel the watchdog, then the session lock
StopCall(s, nested) ==
  /\ wd' = [wd EXCEPT ![s] = CancelWatchdog(@, sess[s].audio_watchdog_task)]
  /\ IF StopMayEnter(slock[s], Handler(s))
     THEN StopLocked(s)
     ELSE /\ slock' = [slock EXCEPT ![s] = Enqueue(@, Handler(s))]
          /\ hpc' = [hpc EXCEPT ![s] = "stop_slock"]
          /\ hloc' = [hloc EXCEPT ![s] = [NoLocals EXCEPT !.nested = nested]]
          /\ UNCHANGED <<sess, out, engineObjs>>

\* the client sends stop
RecvStop(s) ==
  /\ s \in clients /\ AwaitsMessage(s)
  /\ StopCall(s, FALSE)
  /\ UNCHANGED <<mapVars, mlock, last_inference_time, envVars>>

\* handle_audio, buffer full: the error was sent, handle_stop is called with the
\* session lock still held (line 686)
AudioFullSent(s) ==
  /\ hpc[s] = "audio_full_send"
  /\ StopCall(s, TRUE)
  /\ UNCHANGED <<mapVars, mlock, last_inference_time, envVars>>

StopGotSessionLock(s) ==
  /\ hpc[s] = "stop_slock" /\ Grantable(slock[s], Handler(s))
  /\ StopLocked(s)
  /\ UNCHANGED <<wd, mapVars, mlock, last_inference_time, envVars>>

\* the executor's call of transcribe_final is over, with outcome o
StopTranscribed(s, o) ==
  /\ hpc[s] = "stop_transcribing"
  /\ StopReply(s, sess[s], FinalText(CaughtByEngine(o), sess[s].active_engine),
               TRUE, o = Raises)
  /\ UNCHANGED <<wd, mapVars, mlock, last_inference_time, envVars>>

\* final was sent: keep-warm bookkeeping, then the finally block (lines 766-778)
StopFinalSent(s) ==
  /\ hpc[s] = "stop_final_send"
  /\ last_inference_time' =
       IF sess[s].active_model # NoModel
       THEN [last_inference_time EXCEPT ![sess[s].active_model] = now]
       ELSE last_inference_time
  /\ sess' = [sess EXCEPT ![s] = clear_audio(@)]
  /\ engineObjs' = end_session(engineObjs, sess[s].active_engine)
  /\ slock' = [slock EXCEPT ![s] = Release(@)]
  /\ hpc' = [hpc EXCEPT ![s] = "idle"]
  /\ hloc' = [hloc EXCEPT ![s] = NoLocals]
  /\ UNCHANGED <<wd, out, mapVars, mlock, envVars>>

\* ------------------------------------------------------------ handle_transcribe_interval
\* times of the interval protocol, in milliseconds
context_seconds == 2000
min_buffer == context_seconds + 1000

TailOfLength(total, k) == k
\* len(full_audio[-k:]) for an array of total > k samples: the slice [-0:] is
\* the slice [0:], the whole array
TailLength(total, k) == IF k = 0 THEN total ELSE k

\* keep_audio_tail (lines 150-166): only the last samples stay, as one chunk
keep_audio_tail(S, seconds) ==
  LET samples_to_keep == (SAMPLE_RATE * seconds) \div 1000
      tail_audio == TailLength(S.total_samples, samples_to_keep) IN
  IF S.total_samples <= samples_to_keep THEN S
  ELSE [S EXCEPT !.audio_chunks = <<tail_audio>>, !.total_samples = tail_audio]

\* get_buffer_seconds() < min_buffer (lines 805-813), in samples
BufferTooShort(S) == S.total_samples * 1000 < min_buffer * SAMPLE_RATE

\* hasattr(engine, 'transcribe_with_timestamps'): WhisperEngine has it, the
\* Parakeet ASREngine has not
HasTimestamps(E) == E.model \in WHISPER_MODELS

\* the words of a result, each by its start time in milliseconds
WordLists == {<<>>, <<100, 1000, 2300, 3000>>, <<1400, 1500>>}

SkipContextStrictly(words) == SelectSeq(words, LAMBDA w : w > context_seconds - 500)
\* line 835: [w for w in words if w["start"] >= context_seconds - 0.5]
SkipContext(words) == SelectSeq(words, LAMBDA w : w >= context_seconds - 500)

\* lines 834-836: the context window is skipped after the first interval
ContextSkipped(S, words) ==
  IF S.has_done_first_interval /\ words # <<>> THEN SkipContext(words) ELSE words

\* line 856: " ".join(w["word"] for w in words).strip(), empty without words
JoinWords(words) == IF words = <<>> THEN "" ELSE "a"

\* what the engine's call ends with.  With timestamps: the words, or an exception
\* that _transcribe_with_timestamps_sync and transcribe_with_timestamps catch
\* (whisper_engine.py 271-275, 304-306); without: transcribe_final's text
EngineResults(E) ==
  IF HasTimestamps(E)
  THEN {[raised |-> FALSE, text |-> "", words |-> w] : w \in WordLists}
         \cup {[raised |-> TRUE, text |-> "", words |-> <<>>]}
  ELSE {[raised |-> o = Raises, text |-> CaughtByEngine(o), words |-> <<>>] : o \in Outcomes}

\* the reply of the early returns (lines 797-801, 815-819) and of a pass
\* (lines 868-873)
EmptyInterval == [type |-> "interval_transcription", arg |-> "", is_final |-> FALSE]
IntervalResult(text, words) ==
  [type |-> "interval_transcription", arg |-> text, words |-> words,
   speakers |-> <<>>, is_final |-> FALSE]

\* websocket.send of a reply under the session lock.  On a connection the client
\* has closed it raises: send_error fails silently (line 889, or line 548 for
\* the send of line 797) and the handler returns
IntervalSend(s, m, pc, r, called) ==
  /\ UNCHANGED sess
  /\ IF s \in closed
     THEN /\ slock' = [slock EXCEPT ![s] = Release(Hold(@, Handler(s)))]
          /\ hpc' = [hpc EXCEPT ![s] = "idle"]
          /\ hloc' = [hloc EXCEPT ![s] = NoLocals]
          /\ out' = out
     ELSE /\ slock' = [slock EXCEPT ![s] = Hold(@, Handler(s))]
          /\ hpc' = [hpc EXCEPT ![s] = pc]
          /\ hloc' = [hloc EXCEPT ![s] = [NoLocals EXCEPT !.engine_called = called,
                                            !.raised = r.raised, !.result = r.words]]
          /\ out' = Send(s, m)

\* lines 822-873 once the engine has answered with r: skip the context, format
\* the text, send it
IntervalReply(s, r) ==
  LET S == sess[s]
      E == engineObjs[S.active_engine]
      words == ContextSkipped(S, r.words)
      text == IF HasTimestamps(E) THEN JoinWords(words) ELSE r.text IN
  IntervalSend(s, IntervalResult(text, words), "interval_send", r, TRUE)

NothingHeard == [raised |-> FALSE, text |-> "", words |-> <<>>]

\* async with session.lock entered (lines 791-861, up to the first await)
IntervalLocked(s) ==
  LET S == sess[s]
      e == S.active_engine IN
  IF ReturnsAtOnce(S)
  THEN /\ slock' = [slock EXCEPT ![s] = Release(Hold(@, Handler(s)))]
       /\ hpc' = [hpc EXCEPT ![s] = "idle"]
       /\ hloc' = [hloc EXCEPT ![s] = NoLocals]
       /\ UNCHANGED <<sess, out>>
  ELSE IF S.total_samples = 0 \/ e = NoEngine \/ BufferTooShort(S)
  THEN IntervalSend(s, EmptyInterval, "interval_empty_send", NothingHeard, FALSE)
  ELSE IF ~engineObjs[e].is_loaded
  THEN IntervalReply(s, NothingHeard)
  ELSE /\ slock' = [slock EXCEPT ![s] = Hold(@, Handler(s))]
       /\ hpc' = [hpc EXCEPT ![s] = "interval_transcribing"]
       /\ hloc' = [hloc EXCEPT ![s] = [NoLocals EXCEPT !.engine_called = TRUE]]
       /\ UNCHANGED <<sess, out>>

\* the client sends transcribe_interval
RecvInterval(s) ==
  /\ s \in clients /\ AwaitsMessage(s)
  /\ IF IsFree(slock[s])
     THEN IntervalLocked(s)
     ELSE /\ slock' = [slock EXCEPT ![s] = Enqueue(@, Handler(s))]
          /\ hpc' = [hpc EXCEPT ![s] = "interval_slock"]
          /\ hloc' = [hloc EXCEPT ![s] = NoLocals]
          /\ UNCHANGED <<sess, out>>
  /\ UNCHANGED <<wd, engineObjs, mapVars, mlock, last_inference_time, envVars>>

IntervalGotSessionLock(s) ==
  /\ hpc[s] = "interval_slock" /\ Grantable(slock[s], Handler(s))
  /\ IntervalLocked(s)
  /\ UNCHANGED <<wd, engineObjs, mapVars, mlock, last_inference_time, envVars>>

\* the executor's call is over, with result r
IntervalTranscribed(s, r) ==
  /\ hpc[s] = "interval_transcribing"
  /\ r \in EngineResults(engineObjs[sess[s].active_engine])
  /\ IntervalReply(s, r)
  /\ UNCHANGED <<wd, engineObjs, mapVars, mlock, last_inference_time, envVars>>

\* the empty reply was sent: the handler returns
IntervalEmptySent(s) ==
  /\ hpc[s] = "interval_empty_send"
  /\ slock' = [slock EXCEPT ![s] = Release(@)]
  /\ hpc' = [hpc EXCEPT ![s] = "idle"]
  /\ hloc' = [hloc EXCEPT ![s] = NoLocals]
  /\ UNCHANGED <<sess, wd, out, engineObjs, mapVars, mlock, last_inference_time, envVars>>

\* the result was sent: the interval bookkeeping (lines 875-883)
IntervalSent(s) ==
  /\ hpc[s] = "interval_send"
  /\ sess' = [sess EXCEPT ![s] =
                keep_audio_tail([@ EXCEPT !.has_done_first_interval = TRUE],
                                context_seconds)]
  /\ last_inference_time' =
       IF sess[s].active_model # NoModel
       THEN [last_inference_time EXCEPT ![sess[s].active_model] = now]
       ELSE last_inference_time
  /\ slock' = [slock EXCEPT ![s] = Release(@)]
  /\ hpc' = [hpc EXCEPT ![s] = "idle"]
  /\ hloc' = [hloc EXCEPT ![s] = NoLocals]
  /\ UNCHANGED <<wd, out, engineObjs, mapVars, mlock, envVars>>

\* ------------------------------------------------------------ handle_client
\* ClientSession.cleanup (lines 172-178)
cleanup(S) == [clear_audio(S) EXCEPT !.is_recording = FALSE]

\* the client closes its connection
ClientCloses(s) ==
  /\ s \in clients /\ s \notin closed
  /\ closed' = closed \cup {s}
  /\ UNCHANGED <<clients, sd, invalid_json, bench, diarization_loaded, sessVars, poolVars, last_inference_time,
                 now, warmVars>>

\* "async for message in websocket" ends on the closed connection, or a message
\* arrives after the shutdown signal and the loop breaks (line 472): the finally
\* block of handle_client (lines 481-485), which takes no lock
HandlerEnds(s) ==
  /\ s \in clients /\ hpc[s] = "idle"
  /\ s \in closed \/ sd.is_shutting_down
  /\ sess' = [sess EXCEPT ![s] = cleanup(@)]
  /\ engineObjs' = end_session(engineObjs, sess[s].active_engine)
  /\ clients' = clients \ {s}
  /\ UNCHANGED <<closed, sd, invalid_json, bench, diarization_loaded, slock, hpc, hloc, wd, out, mapVars, mlock,
                 downloaded,
                 last_inference_time, now, warmVars>>

\* what no pool handler changes
recVars == <<sess, slock, wd>>

\* ------------------------------------------------------------ direct calls
\* a call of a method of the ClientSession object 1, which no connection uses
Call(op, arg) == [op |-> op, arg |-> arg]
Made(c, ret) == [op |-> c.op, arg |-> c.arg, ret |-> ret]
NextCallIs(op) == bench.todo # <<>> /\ Head(bench.todo).op = op
CallMade(ret) ==
  bench' = [todo |-> Tail(bench.todo), done |-> Append(bench.done, Made(Head(bench.todo), ret))]
benchFrame == <<clients, closed, sd, invalid_json, diarization_loaded, slock, hpc, hloc, wd, out, poolVars,
                last_inference_time, now, warmVars>>

\* session.add_audio(chunk of arg samples); ret: the chunk was accepted
AddAudioCall ==
  /\ NextCallIs("add_audio")
  /\ LET n == Head(bench.todo).arg IN
     /\ sess' = [sess EXCEPT ![1] = add_audio(@, n)]
     /\ CallMade(AddAudioAccepts(sess[1].total_samples, n))
  /\ UNCHANGED benchFrame

\* session.keep_audio_tail(arg milliseconds)
KeepTailCall ==
  /\ NextCallIs("keep_audio_tail")
  /\ sess' = [sess EXCEPT ![1] = keep_audio_tail(@, Head(bench.todo).arg)]
  /\ CallMade(FALSE)
  /\ UNCHANGED benchFrame

\* ------------------------------------------------------------ DiarizationEngine
\* times are in tenths of a second
Min(a, b) == IF a < b THEN a ELSE b
Max(a, b) == IF a > b THEN a ELSE b
\* seg_start <= word_mid <= seg_end, with word_mid = (word_start + word_end) / 2
ContainsMid(seg, word) ==
  2 * seg.start <= word.start + word.end /\ word.start + word.end <= 2 * seg.end
\* max(0, min(word_end, seg_end) - max(word_start, seg_start))
Overlap(seg, word) == Max(0, Min(word.end, seg.end) - Max(word.start, seg.start))

NoSpeaker == "<None>"
\* "if overlap > max_overlap"
Better(overlap, max_overlap) == overlap > max_overlap

\* the loop over the segments (lines 211-226) from segs on, with the speaker
\* assigned and the maximum overlap found so far
RECURSIVE ScanSegments(_, _, _, _)
ScanSegments(word, segs, assigned_speaker, max_overlap) ==
  IF segs = <<>> THEN assigned_speaker
  ELSE LET seg == Head(segs) IN
       IF ContainsMid(seg, word) THEN seg.speaker
       ELSE IF Better(Overlap(seg, word), max_overlap)
       THEN ScanSegments(word, Tail(segs), seg.speaker, Overlap(seg, word))
       ELSE ScanSegments(word, Tail(segs), assigned_speaker, max_overlap)

\* the "speaker" of one word after assign_speakers_to_words: no key at all
\* when there are no segments (line 194), else the speaker found or "Unknown"
AssignedSpeaker(word, segments) ==
  IF segments = <<>> THEN NoSpeaker
  ELSE LET assigned_speaker == ScanSegments(word, segments, NoSpeaker, 0) IN
       IF assigned_speaker = NoSpeaker THEN "Unknown" ELSE assigned_speaker

\* diarization_engine.assign_speakers_to_words([word], segments)
AssignCall ==
  /\ NextCallIs("assign_speakers_to_words")
  /\ CallMade(AssignedSpeaker(Head(bench.todo).arg.word, Head(bench.todo).arg.segments))
  /\ UNCHANGED <<sess, benchFrame>>

\* ------------------------------------------------------------ handle_message
\* the client sends text that json.loads rejects: the error is logged (line
\* 546) and handle_message returns without a reply
RecvMalformed(s) ==
  /\ s \in clients /\ AwaitsMessage(s) /\ invalid_json[s] < MaxInvalid
  /\ invalid_json' = [invalid_json EXCEPT ![s] = @ + 1]
  /\ UNCHANGED <<clients, closed, sd, bench, diarization_loaded, sessVars, poolVars,
                 last_inference_time, now, warmVars>>

\* "except Exception" of handle_message (lines 547-551): send_error, which
\* fails silently on a connection the client has closed (line 1209)
DispatchError(s) ==
  /\ hloc' = [hloc EXCEPT ![s] = NoLocals]
  /\ IF s \in closed
     THEN hpc' = [hpc EXCEPT ![s] = "idle"] /\ out' = out
     ELSE hpc' = [hpc EXCEPT ![s] = "dispatch_error"]
            /\ out' = Send(s, Msg("error", "exception"))

\* the client sends JSON that is not an object: data.get raises AttributeError
\* in handle_message itself (line 507)
RecvNotObject(s) ==
  /\ s \in clients /\ AwaitsMessage(s) /\ Len(out[s]) < MaxOut
  /\ DispatchError(s)
  /\ UNCHANGED <<recVars, poolVars, last_inference_time, now, clientVars, warmVars>>

ExitKeepsLock(l, t) == Hold(l, t)
\* "async with lock" left by an exception: __aexit__ releases the lock
ExitByException(l, t) == Release(Hold(l, t))

\* handle_start with settings that are not an object: settings.get raises
\* AttributeError under the session lock (line 557)
BadStartLocked(s) ==
  /\ slock' = [slock EXCEPT ![s] = ExitByException(@, Handler(s))]
  /\ DispatchError(s)

\* the client sends start with settings that are not an object
RecvBadStart(s) ==
  /\ s \in clients /\ AwaitsMessage(s) /\ Len(out[s]) < MaxOut
  /\ IF IsFree(slock[s])
     THEN BadStartLocked(s)
     ELSE /\ slock' = [slock EXCEPT ![s] = Enqueue(@, Handler(s))]
          /\ hpc' = [hpc EXCEPT ![s] = "badstart_slock"]
          /\ UNCHANGED <<hloc, out>>
  /\ UNCHANGED <<sess, wd, poolVars, last_inference_time, now, clientVars, warmVars>>

BadStartGotSessionLock(s) ==
  /\ hpc[s] = "badstart_slock" /\ Grantable(slock[s], Handler(s))
  /\ BadStartLocked(s)
  /\ UNCHANGED <<sess, wd, poolVars, last_inference_time, now, clientVars, warmVars>>

\* send_error returned: handle_message returns, the next message is awaited
DispatchErrorSent(s) ==
  /\ hpc[s] = "dispatch_error"
  /\ hpc' = [hpc EXCEPT ![s] = "idle"]
  /\ UNCHANGED <<recVars, hloc, out, poolVars, last_inference_time, now, clientVars,
                 warmVars>>

\* ------------------------------------------------------------ replies

\* the last send of a handler returned: the handler returns
ReplySent(s) ==
  /\ hpc[s] = "reply_send"
  /\ hpc' = [hpc EXCEPT ![s] = "idle"]
  /\ hloc' = [hloc EXCEPT ![s] = NoLocals]
  /\ UNCHANGED <<recVars, out, poolVars, last_inference_time, now, clientVars, warmVars>>

\* send m as the handler's last message
Reply(s, m) ==
  /\ out' = Send(s, m)
  /\ hpc' = [hpc EXCEPT ![s] = "reply_send"]

\* ------------------------------------------------------------ handle_download_model
\* the client sends download_model: download_model_async runs in the executor
RecvDownload(s) ==
  /\ s \in clients /\ AwaitsMessage(s) /\ Len(out[s]) < MaxOut
  /\ hpc' = [hpc EXCEPT ![s] = "download_wait"]
  /\ UNCHANGED <<recVars, hloc, out, poolVars, last_inference_time, now, clientVars,
                 warmVars>>

\* the download ended: model_downloaded, or the exception reported as model_error
DownloadDone(s, ok) ==
  /\ hpc[s] = "download_wait"
  /\ IF ok
     THEN /\ downloaded' = TRUE
          /\ out' = Send(s, Msg("model_downloaded", MODEL_PARAKEET))
          /\ hpc' = [hpc EXCEPT ![s] = "download_sent"]
     ELSE /\ downloaded' = downloaded
          /\ Reply(s, Msg("model_error", MODEL_PARAKEET))
  /\ UNCHANGED <<recVars, hloc, engineObjs, mapVars, mlock, last_inference_time, now,
                 clientVars, warmVars>>

\* model_downloaded was sent: load_model(MODEL_PARAKEET), the model lock not taken
\* (line 953)
DownloadSent(s) ==
  /\ hpc[s] = "download_sent"
  /\ IF AlreadyLoaded(MODEL_PARAKEET)
     THEN /\ Reply(s, Msg("model_loaded", MODEL_PARAKEET))
          /\ hloc' = hloc
     ELSE IF LoadRaisesAtOnce(MODEL_PARAKEET)
     THEN /\ Reply(s, Msg("model_error", MODEL_PARAKEET))
          /\ hloc' = hloc
     ELSE /\ hpc' = [hpc EXCEPT ![s] = "download_loading"]
          /\ hloc' = [hloc EXCEPT ![s].model = MODEL_PARAKEET]
          /\ out' = out
  /\ UNCHANGED <<recVars, poolVars, last_inference_time, now, clientVars, warmVars>>

\* engine.load_model() returned or raised
DownloadLoadDone(s, ok) ==
  /\ hpc[s] = "download_loading"
  /\ IF ok
     THEN /\ LoadSucceeded(MODEL_PARAKEET)
          /\ Reply(s, Msg("model_loaded", MODEL_PARAKEET))
     ELSE /\ Reply(s, Msg("model_error", MODEL_PARAKEET))
          /\ UNCHANGED <<engineObjs, mapVars>>
  /\ UNCHANGED <<recVars, hloc, mlock, downloaded, last_inference_time, now, clientVars,
                 warmVars>>

\* ------------------------------------------------------------ handle_load_model
\* async with self.model_lock entered (lines 997-1007)
LoadModelLocked(s, m) ==
  /\ hloc' = [hloc EXCEPT ![s].model = m]
  /\ IF m \in loaded_models
     THEN /\ mlock' = Hold(mlock, Handler(s))
          /\ out' = Send(s, Msg("model_loaded", m))
          /\ hpc' = [hpc EXCEPT ![s] = "load_sent_locked"]
     ELSE IF LoadRaisesAtOnce(m)
     THEN /\ mlock' = Release(Hold(mlock, Handler(s)))
          /\ Reply(s, Msg("model_error", m))
     ELSE /\ mlock' = Hold(mlock, Handler(s))
          /\ hpc' = [hpc EXCEPT ![s] = "load_loading"]
          /\ out' = out

\* the client sends load_model{model} with a valid model id
RecvLoadModel(s, m) ==
  /\ s \in clients /\ AwaitsMessage(s) /\ Len(out[s]) < MaxOut
  /\ IF IsFree(mlock)
     THEN LoadModelLocked(s, m)
     ELSE /\ mlock' = Enqueue(mlock, Handler(s))
          /\ hpc' = [hpc EXCEPT ![s] = "load_mlock"]
          /\ hloc' = [hloc EXCEPT ![s].model = m]
          /\ out' = out
  /\ UNCHANGED <<recVars, engineObjs, mapVars, downloaded, last_inference_time, now,
                 clientVars, warmVars>>

LoadModelGotLock(s) ==
  /\ hpc[s] = "load_mlock" /\ Grantable(mlock, Handler(s))
  /\ LoadModelLocked(s, hloc[s].model)
  /\ UNCHANGED <<recVars, engineObjs, mapVars, downloaded, last_inference_time, now,
                 clientVars, warmVars>>

\* model_loaded was sent inside the with-block: return (line 1004)
LoadModelSentLocked(s) ==
  /\ hpc[s] = "load_sent_locked"
  /\ mlock' = Release(mlock)
  /\ hpc' = [hpc EXCEPT ![s] = "idle"]
  /\ hloc' = [hloc EXCEPT ![s] = NoLocals]
  /\ UNCHANGED <<recVars, out, engineObjs, mapVars, downloaded, last_inference_time,
                 now, clientVars, warmVars>>

\* engine.load_model() returned or raised, under the model lock
LoadModelDone(s, ok) ==
  /\ hpc[s] = "load_loading"
  /\ mlock' = Release(mlock)
  /\ IF ok
     THEN /\ LoadSucceeded(hloc[s].model)
          /\ Reply(s, Msg("model_loaded", hloc[s].model))
     ELSE /\ Reply(s, Msg("model_error", hloc[s].model))
          /\ UNCHANGED <<engineObjs, mapVars>>
  /\ UNCHANGED <<recVars, hloc, downloaded, last_inference_time, now, clientVars,
                 warmVars>>

\* ------------------------------------------------------------ unloading
\* engine.unload() on the pool's engine of m, if there is one
Unloaded(E, m) ==
  IF engines[m] = NoEngine THEN E ELSE [E EXCEPT ![engines[m]].is_loaded = FALSE]
\* the candidates for next(iter(self.engines)) once m is removed
Remaining(m) == {x \in ValidModels \ {m} : engines[x] # NoEngine}
DefaultKeptAfterUnload(m) == default_model' = default_model
\* "If this was the default model, switch to first available", else keep it
DefaultAfterUnload(m) ==
  IF default_model = m /\ Remaining(m) # {}
  THEN default_model' \in Remaining(m)
  ELSE default_model' = default_model

\* ------------------------------------------------------------ handle_clear_cache
\* async with self.model_lock entered (lines 1026-1040), then send_status
ClearCacheLocked(s) ==
  /\ engineObjs' = Unloaded(engineObjs, MODEL_PARAKEET)
  /\ engines' = [engines EXCEPT ![MODEL_PARAKEET] = NoEngine]
  /\ loaded_models' = loaded_models \ {MODEL_PARAKEET}
  /\ DefaultAfterUnload(MODEL_PARAKEET)
  /\ downloaded' = FALSE
  /\ mlock' = Release(Hold(mlock, Handler(s)))
  /\ Reply(s, Msg("ready", ""))

\* the client sends clear_cache
RecvClearCache(s) ==
  /\ s \in clients /\ AwaitsMessage(s) /\ Len(out[s]) < MaxOut
  /\ IF IsFree(mlock)
     THEN ClearCacheLocked(s)
     ELSE /\ mlock' = Enqueue(mlock, Handler(s))
          /\ hpc' = [hpc EXCEPT ![s] = "clear_mlock"]
          /\ UNCHANGED <<out, engineObjs, mapVars, downloaded>>
  /\ UNCHANGED <<recVars, hloc, last_inference_time, now, clientVars, warmVars>>

ClearCacheGotLock(s) ==
  /\ hpc[s] = "clear_mlock" /\ Grantable(mlock, Handler(s))
  /\ ClearCacheLocked(s)
  /\ UNCHANGED <<recVars, hloc, last_inference_time, now, clientVars, warmVars>>

\* ------------------------------------------------------------ handle_set_keep_warm
\* the eager-load loop passes over m without loading it (the "continue"s of
\* lines 1061-1076)
SkippableWhenLoaded(m) == AlreadyLoaded(m)
Skippable(m) == AlreadyLoaded(m) \/ LoadRaisesAtOnce(m)

\* the loop takes and leaves the lock L, free all the while, over the models
\* that it skips: the rest of the list where it stops
RECURSIVE WarmSkip(_, _)
WarmSkip(todo, L) ==
  IF todo = <<>> \/ ~IsFree(L) \/ ~Skippable(Head(todo)) THEN todo
  ELSE WarmSkip(Tail(todo), L)

\* the confirmation of lines 1103-1108, with list(self.keep_warm_models) and
\* self.keep_warm_duration as they are when it is sent
KeepWarmUpdated(models, duration) ==
  [type |-> "keep_warm_updated", arg |-> "", models |-> models, duration |-> duration]

\* the loop of lines 1059-1091 from its head, the model lock being L, up to the
\* next await; after the loop keep_warm_updated is sent, K
WarmFrom(s, todo0, L, K) ==
  LET todo == WarmSkip(todo0, L) IN
  IF todo = <<>>
  THEN /\ mlock' = L
       /\ Reply(s, K)
       /\ hloc' = [hloc EXCEPT ![s] = NoLocals]
  ELSE IF ~IsFree(L)
  THEN /\ mlock' = Enqueue(L, Handler(s))
       /\ hpc' = [hpc EXCEPT ![s] = "warm_mlock"]
       /\ hloc' = [hloc EXCEPT ![s].todo = todo, ![s].model = NoModel]
       /\ out' = out
  ELSE /\ mlock' = Hold(L, Handler(s))
       /\ hpc' = [hpc EXCEPT ![s] = "warm_loading"]
       /\ hloc' = [hloc EXCEPT ![s].todo = todo, ![s].model = Head(todo)]
       /\ out' = out

\* the keep-warm monitor task
NoMonitor == [pc |-> "none", must_cancel |-> FALSE, todo |-> <<>>, id |-> 0]
\* asyncio.create_task(self._keep_warm_monitor()): the task starts in its sleep
NewMonitor == [NoMonitor EXCEPT !.pc = "sleep", !.id = Len(lost) + 1]
MonitorRuns == kw.pc \notin {"none", "done"}

\* the client sends set_keep_warm{models, duration}
RecvSetKeepWarm(s, models, duration) ==
  /\ s \in clients /\ AwaitsMessage(s) /\ Len(out[s]) < MaxOut
  /\ keep_warm_models' = {models[i] : i \in 1..Len(models)}
  /\ keep_warm_enabled' = (Len(models) > 0)
  /\ keep_warm_duration' = duration
  /\ IF Len(models) > 0
     THEN /\ kw' = IF MonitorRuns THEN kw ELSE NewMonitor
          /\ WarmFrom(s, models, mlock,
                      KeepWarmUpdated({models[i] : i \in 1..Len(models)}, duration))
     ELSE IF MonitorRuns
     THEN /\ kw' = [kw EXCEPT !.must_cancel = TRUE]
          /\ hpc' = [hpc EXCEPT ![s] = "warm_join"]
          /\ UNCHANGED <<hloc, out, mlock>>
     ELSE /\ Reply(s, KeepWarmUpdated({}, duration))
          /\ UNCHANGED <<hloc, kw, mlock>>
  /\ UNCHANGED <<recVars, engineObjs, mapVars, downloaded, last_inference_time, now,
                 clientVars, lost>>

\* "await self.keep_warm_task" returned, the cancelled monitor having ended:
\* "self.keep_warm_task = None" (line 1100), whatever task the field names now
WarmJoined(s) ==
  /\ hpc[s] = "warm_joined"
  /\ kw' = NoMonitor
  /\ lost' = IF MonitorRuns THEN Append(lost, kw) ELSE lost
  /\ Reply(s, KeepWarmUpdated(keep_warm_models, keep_warm_duration))
  /\ UNCHANGED <<recVars, hloc, poolVars, last_inference_time, now, clientVars,
                 keep_warm_enabled, keep_warm_models, keep_warm_duration>>

\* the model lock was released to the waiting eager-load loop
WarmGotLock(s) ==
  /\ hpc[s] = "warm_mlock" /\ Grantable(mlock, Handler(s))
  /\ IF Skippable(Head(hloc[s].todo))
     THEN WarmFrom(s, Tail(hloc[s].todo), Release(Hold(mlock, Handler(s))),
                   KeepWarmUpdated(keep_warm_models, keep_warm_duration))
     ELSE /\ mlock' = Hold(mlock, Handler(s))
          /\ hpc' = [hpc EXCEPT ![s] = "warm_loading"]
          /\ hloc' = [hloc EXCEPT ![s].model = Head(hloc[s].todo)]
          /\ out' = out
  /\ UNCHANGED <<recVars, engineObjs, mapVars, downloaded, last_inference_time, now,
                 clientVars, warmVars>>

\* engine.load_model() returned or raised, under the model lock (lines 1079-1091)
WarmLoadDone(s, ok) ==
  /\ hpc[s] = "warm_loading"
  /\ IF ok
     THEN /\ LoadSucceeded(hloc[s].model)
          /\ last_inference_time' = [last_inference_time EXCEPT ![hloc[s].model] = now]
          /\ mlock' = Release(mlock)
          /\ out' = Send(s, Msg("model_loaded", hloc[s].model))
          /\ hpc' = [hpc EXCEPT ![s] = "warm_sent"]
          /\ hloc' = [hloc EXCEPT ![s].todo = Tail(@)]
     ELSE /\ WarmFrom(s, Tail(hloc[s].todo), Release(mlock),
                      KeepWarmUpdated(keep_warm_models, keep_warm_duration))
          /\ UNCHANGED <<engineObjs, mapVars, last_inference_time>>
  /\ UNCHANGED <<recVars, downloaded, now, clientVars, warmVars>>

\* model_loaded was sent: the next model of the list
WarmSent(s) ==
  /\ hpc[s] = "warm_sent"
  /\ WarmFrom(s, hloc[s].todo, mlock, KeepWarmUpdated(keep_warm_models, keep_warm_duration))
  /\ UNCHANGED <<recVars, engineObjs, mapVars, downloaded, last_inference_time, now,
                 clientVars, warmVars>>

\* ------------------------------------------------------------ _keep_warm_monitor
\* _get_duration_seconds for the finite durations
DurationSeconds(d) ==
  CASE d = "1h" -> 3600
    [] d = "4h" -> 14400
    [] d = "8h" -> 28800
    [] d = "16h" -> 57600
    [] OTHER -> 14400

IdleModelsUnpinned ==
  {m \in loaded_models \ keep_warm_models :
     /\ last_inference_time[m] # None
     /\ now - last_inference_time[m] > DurationSeconds(keep_warm_duration)}
IdleModelsFromThreshold ==
  {m \in loaded_models :
     /\ last_inference_time[m] # None
     /\ now - last_inference_time[m] >= DurationSeconds(keep_warm_duration)}
\* lines 1130-1136: the loaded models whose idle time exceeds the duration; a
\* model without an entry in last_inference_time has idle time 0
IdleModels ==
  {m \in loaded_models :
     /\ last_inference_time[m] # None
     /\ now - last_inference_time[m] > DurationSeconds(keep_warm_duration)}

\* the orders in which a set of models can be listed
Orders(S) ==
  {q \in [1..Cardinality(S) -> S] : \A i, j \in 1..Cardinality(S) : i # j => q[i] # q[j]}

\* _unload_model returns at once for a model that is not in self.engines
RECURSIVE UnloadSkip(_, _)
UnloadSkip(todo, L) ==
  IF todo = <<>> \/ ~IsFree(L) \/ engines[Head(todo)] # NoEngine THEN todo
  ELSE UnloadSkip(Tail(todo), L)

\* the message of lines 1181-1189, to every connected client
Notify(m) ==
  [s \in Sessions |->
     IF s \in clients THEN Append(out[s], Msg("model_unloaded", m)) ELSE out[s]]

\* the monitor tasks: 0 is the task of keep_warm_task, i > 0 the lost task i
Tasks == 0..Len(lost)
Task(i) == IF i = 0 THEN kw ELSE lost[i]
SetTask(i, t) ==
  IF i = 0 THEN kw' = t /\ lost' = lost
  ELSE kw' = kw /\ lost' = [lost EXCEPT ![i] = t]

\* what engine.unload() ends with: it returns, or it raises before or after it
\* has reset is_loaded
UnloadReturns == "returns"
UnloadOutcomes == {UnloadReturns, "raises", "raises_unloaded"}

\* _unload_model(m) under the model lock (lines 1153-1178), L the lock when it
\* is left again, o what engine.unload() ends with: an exception is logged
\* (lines 1177-1178) with the entry still in place; then the notification
UnloadModelLocked(i, m, rest, L, o) ==
  /\ IF o = UnloadReturns
     THEN /\ engineObjs' = Unloaded(engineObjs, m)
          /\ engines' = [engines EXCEPT ![m] = NoEngine]
          /\ loaded_models' = loaded_models \ {m}
          /\ last_inference_time' = [last_inference_time EXCEPT ![m] = None]
          /\ DefaultAfterUnload(m)
     ELSE /\ engineObjs' = IF o = "raises" THEN engineObjs ELSE Unloaded(engineObjs, m)
          /\ UNCHANGED <<mapVars, last_inference_time>>
  /\ mlock' = L
  /\ out' = Notify(m)
  /\ SetTask(i, [Task(i) EXCEPT !.pc = "notify", !.todo = rest])

\* the "for model_id in models_to_unload" loop from its head, the model lock
\* being L, up to the next await; after the loop "while self.keep_warm_enabled"
UnloadFrom(i, todo0, L, o) ==
  LET todo == UnloadSkip(todo0, L) IN
  IF todo = <<>>
  THEN /\ SetTask(i, [Task(i) EXCEPT !.pc = IF keep_warm_enabled THEN "sleep" ELSE "done",
                                     !.todo = <<>>])
       /\ mlock' = L
       /\ UNCHANGED <<out, engineObjs, mapVars, last_inference_time>>
  ELSE IF ~IsFree(L)
  THEN /\ SetTask(i, [Task(i) EXCEPT !.pc = "unload_mlock", !.todo = todo])
       /\ mlock' = Enqueue(L, Monitor(Task(i)))
       /\ UNCHANGED <<out, engineObjs, mapVars, last_inference_time>>
  ELSE UnloadModelLocked(i, Head(todo), Tail(todo), L, o)

\* asyncio.sleep(60) is over (lines 1118-1140)
MonitorWake(i, o) ==
  /\ Task(i).pc = "sleep" /\ ~Task(i).must_cancel
  /\ IF ~keep_warm_enabled
     THEN /\ SetTask(i, [Task(i) EXCEPT !.pc = "done"])
          /\ UNCHANGED <<out, engineObjs, mapVars, last_inference_time, mlock>>
     ELSE IF keep_warm_duration = "permanent" \/ IdleModels = {}
     THEN UNCHANGED <<kw, lost, out, engineObjs, mapVars, last_inference_time, mlock>>
     ELSE \E todo \in Orders(IdleModels) : UnloadFrom(i, todo, mlock, o)
  /\ UNCHANGED <<recVars, hpc, hloc, downloaded, now, clientVars, keep_warm_enabled,
                 keep_warm_models, keep_warm_duration>>

\* the model lock was released to the waiting monitor
MonitorGotLock(i, o) ==
  LET t == Task(i) IN
  /\ t.pc = "unload_mlock" /\ ~t.must_cancel /\ Grantable(mlock, Monitor(t))
  /\ IF engines[Head(t.todo)] = NoEngine
     THEN UnloadFrom(i, Tail(t.todo), Release(Hold(mlock, Monitor(t))), o)
     ELSE UnloadModelLocked(i, Head(t.todo), Tail(t.todo),
                            Release(Hold(mlock, Monitor(t))), o)
  /\ UNCHANGED <<recVars, hpc, hloc, downloaded, now, clientVars, keep_warm_enabled,
                 keep_warm_models, keep_warm_duration>>

\* model_unloaded was sent to the clients: the next model to unload
MonitorNotified(i, o) ==
  /\ Task(i).pc = "notify" /\ ~Task(i).must_cancel
  /\ UnloadFrom(i, Task(i).todo, mlock, o)
  /\ UNCHANGED <<recVars, hpc, hloc, downloaded, now, clientVars, keep_warm_enabled,
                 keep_warm_models, keep_warm_duration>>

\* the cancelled monitor is resumed with CancelledError: "break"; the handlers
\* that await the task (line 1097) are woken. Only the task of keep_warm_task
\* is ever cancelled
MonitorCancelled ==
  /\ MonitorRuns /\ kw.must_cancel
  /\ kw' = [NoMonitor EXCEPT !.pc = "done"]
  /\ mlock' = Dequeue(mlock, Monitor(kw))
  /\ hpc' = [s \in Sessions |-> IF hpc[s] = "warm_join" THEN "warm_joined" ELSE hpc[s]]
  /\ UNCHANGED <<recVars, hloc, out, engineObjs, mapVars, downloaded,
                 last_inference_time, now, clientVars, keep_warm_enabled,
                 keep_warm_models, keep_warm_duration, lost>>

\* time.time() advances
Tick ==
  /\ now < MaxTime
  /\ now' = now + TimeStep
  /\ UNCHANGED <<sessVars, poolVars, last_inference_time, clientVars, warmVars>>

\* ------------------------------------------------------------ shutdown
SdTask == <<"sd", 0, 0>>
\* list(self.sessions.items()), list(self.clients): in order of connection
SeqOf(C) == SelectSeq([i \in 1..NumSessions |-> i], LAMBDA s : s \in C)

SweepIgnoresLock(l) == TRUE
\* line 321: "async with session.lock" is entered without waiting
SweepMayEnter(l) == IsFree(l)

\* lines 317-327 from session Head(todo) on, up to a session lock that is not
\* free: a recording session is stopped under its lock, every session is
\* cleaned up (S, E: the sessions and engines so far)
RECURSIVE Sweep(_, _, _)
Sweep(todo, S, E) ==
  IF todo = <<>> THEN [sess |-> S, engs |-> E, rest |-> <<>>]
  ELSE LET s == Head(todo) IN
       IF S[s].is_recording /\ ~SweepMayEnter(slock[s])
       THEN [sess |-> S, engs |-> E, rest |-> todo]
       ELSE Sweep(Tail(todo), [S EXCEPT ![s] = cleanup(@)],
                  end_session(E, S[s].active_engine))

\* handle_clear_cache when engine.unload() raises (line 1029): the exception
\* leaves the model lock, nothing is removed or cleared, and handle_message
\* reports it (o: "raises" or "raises_unloaded")
ClearCacheRaised(s, o) ==
  /\ engines[MODEL_PARAKEET] # NoEngine
  /\ engineObjs' = IF o = "raises" THEN engineObjs ELSE Unloaded(engineObjs, MODEL_PARAKEET)
  /\ mlock' = ExitByException(mlock, Handler(s))
  /\ DispatchError(s)
  /\ UNCHANGED <<recVars, mapVars, downloaded, last_inference_time, now, clientVars,
                 warmVars>>

RecvClearCacheRaising(s, o) ==
  /\ s \in clients /\ AwaitsMessage(s) /\ Len(out[s]) < MaxOut
  /\ IsFree(mlock)
  /\ ClearCacheRaised(s, o)

ClearCacheGotLockRaising(s, o) ==
  /\ hpc[s] = "clear_mlock" /\ Grantable(mlock, Handler(s))
  /\ ClearCacheRaised(s, o)

\* the unloads of lines 342-352, O[m] being the outcome of engine.unload() for
\* m: a model whose unload raises stays in engines and loaded_models
AllReturn == [m \in ValidModels |-> UnloadReturns]
SdKept(O) == {m \in loaded_models : engines[m] # NoEngine /\ O[m] # UnloadReturns}
SdPoolCleared(O) ==
  [m \in ValidModels |-> IF m \in loaded_models THEN NoEngine ELSE engines[m]]
SdPool(O) ==
  [m \in ValidModels |-> IF m \in loaded_models \ SdKept(O) THEN NoEngine ELSE engines[m]]
SdEngines(E, O) ==
  [e \in DOMAIN E |->
     IF E[e].model \in loaded_models /\ engines[E[e].model] = e
          /\ O[E[e].model] # "raises"
     THEN [E[e] EXCEPT !.is_loaded = FALSE] ELSE E[e]]

\* lines 341-359: every loaded model is unloaded under the model lock, then
\* server.close() (E: the engines so far)
SdUnload(E, O) ==
  IF IsFree(mlock)
  THEN /\ engineObjs' = SdEngines(E, O)
       /\ engines' = SdPool(O)
       /\ loaded_models' = SdKept(O)
       /\ mlock' = mlock
       /\ sd' = [sd EXCEPT !.pc = "wait_closed", !.todo = <<>>, !.listening = FALSE]
  ELSE /\ engineObjs' = E
       /\ mlock' = Enqueue(mlock, SdTask)
       /\ sd' = [sd EXCEPT !.pc = "sd_mlock", !.todo = <<>>]
       /\ UNCHANGED <<engines, loaded_models>>

\* lines 329-338: close(1001) on the first client, or no client to close
SdClose(E, O) ==
  IF clients = {} THEN SdUnload(E, O)
  ELSE /\ engineObjs' = E
       /\ sd' = [sd EXCEPT !.pc = "closing", !.todo = SeqOf(clients)]
       /\ UNCHANGED <<engines, loaded_models, mlock>>

\* the loop over the sessions from Head(todo) on (SL: the session locks now)
SdSweepFrom(todo, S, E, SL, O) ==
  LET r == Sweep(todo, S, E) IN
  /\ sess' = r.sess
  /\ IF r.rest = <<>>
     THEN slock' = SL /\ SdClose(r.engs, O)
     ELSE /\ slock' = [SL EXCEPT ![Head(r.rest)] = Enqueue(@, SdTask)]
          /\ engineObjs' = r.engs
          /\ sd' = [sd EXCEPT !.pc = "sd_slock", !.todo = r.rest]
          /\ UNCHANGED <<engines, loaded_models, mlock>>

\* what no step of the shutdown changes
sdFrame == <<clients, invalid_json, bench, diarization_loaded, hpc, hloc, wd, out, default_model, downloaded,
             last_inference_time, now, keep_warm_enabled, keep_warm_models,
             keep_warm_duration, lost>>

\* SIGINT or SIGTERM: the signal handler sets the flag (line 1223)
Signal ==
  /\ ~sd.is_shutting_down
  /\ sd' = [sd EXCEPT !.is_shutting_down = TRUE]
  /\ UNCHANGED <<clients, closed, invalid_json, bench, diarization_loaded, sessVars, poolVars,
                 last_inference_time, now, warmVars>>

\* start() leaves its wait loop and calls shutdown() (lines 274-278, 308-313):
\* the keep-warm monitor is cancelled and awaited, or the sessions come next
ShutdownStartsWith(O) ==
  /\ sd.is_shutting_down /\ sd.pc = "none"
  /\ IF MonitorRuns
     THEN /\ kw' = [kw EXCEPT !.must_cancel = TRUE]
          /\ sd' = [sd EXCEPT !.pc = "monitor_join"]
          /\ UNCHANGED <<sess, slock, engineObjs, engines, loaded_models, mlock>>
     ELSE kw' = kw /\ SdSweepFrom(SeqOf(clients), sess, engineObjs, slock, O)
  /\ UNCHANGED <<closed, sdFrame>>

\* "await self.keep_warm_task" returned
ShutdownMonitorJoinedWith(O) ==
  /\ sd.pc = "monitor_join" /\ ~MonitorRuns
  /\ SdSweepFrom(SeqOf(clients), sess, engineObjs, slock, O)
  /\ UNCHANGED <<kw, closed, sdFrame>>

\* the session lock was released to the waiting shutdown (lines 322-325)
ShutdownGotSessionLockWith(O) ==
  /\ sd.pc = "sd_slock" /\ Grantable(slock[Head(sd.todo)], SdTask)
  /\ LET s == Head(sd.todo) IN
     SdSweepFrom(Tail(sd.todo), [sess EXCEPT ![s] = cleanup(@)],
                 end_session(engineObjs, sess[s].active_engine),
                 [slock EXCEPT ![s] = Release(Hold(@, SdTask))], O)
  /\ UNCHANGED <<kw, closed, sdFrame>>

\* client.close(1001, ...) returned: the next client, or the models
ShutdownCloseReturnedWith(O) ==
  /\ sd.pc = "closing"
  /\ closed' = closed \cup {Head(sd.todo)}
  /\ IF Tail(sd.todo) # <<>>
     THEN /\ sd' = [sd EXCEPT !.todo = Tail(sd.todo)]
          /\ UNCHANGED <<engineObjs, engines, loaded_models, mlock>>
     ELSE SdUnload(engineObjs, O)
  /\ UNCHANGED <<kw, sess, slock, sdFrame>>

\* the model lock was released to the waiting shutdown
ShutdownGotModelLockWith(O) ==
  /\ sd.pc = "sd_mlock" /\ Grantable(mlock, SdTask)
  /\ engineObjs' = SdEngines(engineObjs, O)
  /\ engines' = SdPool(O)
  /\ loaded_models' = SdKept(O)
  /\ mlock' = Release(Hold(mlock, SdTask))
  /\ sd' = [sd EXCEPT !.pc = "wait_closed", !.listening = FALSE]
  /\ UNCHANGED <<kw, closed, sess, slock, sdFrame>>

\* the steps of shutdown() when every engine.unload() returns
ShutdownStarts == ShutdownStartsWith(AllReturn)
ShutdownMonitorJoined == ShutdownMonitorJoinedWith(AllReturn)
ShutdownGotSessionLock == ShutdownGotSessionLockWith(AllReturn)
ShutdownCloseReturned == ShutdownCloseReturnedWith(AllReturn)
ShutdownGotModelLock == ShutdownGotModelLockWith(AllReturn)

\* server.wait_closed() returned: every connection handler has ended
ShutdownServerClosed ==
  /\ sd.pc = "wait_closed" /\ clients = {}
  /\ sd' = [sd EXCEPT !.pc = "done"]
  /\ UNCHANGED <<clients, closed, invalid_json, bench, diarization_loaded, sessVars, poolVars,
                 last_inference_time, now, warmVars>>

\* ------------------------------------------------------------ specifications
\* the steps of handle_start once it is past the session lock
StartStep(s) ==
  \/ StartRetry(s)
  \/ \E ok \in BOOLEAN : StartLoadDone(s, ok)
  \/ StartSentLoaded(s)
  \/ StartErrSent(s)
  \/ StartReadySent(s)

StopStep(s) ==
  \/ StopGotSessionLock(s)
  \/ \E o \in Outcomes : StopTranscribed(s, o)
  \/ StopFinalSent(s)

WatchdogStep(s) ==
  \E k \in 1..MaxStarts :
    \/ WatchdogTimeout(s, k)
    \/ WatchdogSent(s, k)
    \/ WatchdogGotLock(s, k)
    \/ WatchdogCancelled(s, k)

\* one client that records short chunks: start, audio, stop, and its watchdogs
InitRec == InitPool /\ downloaded = TRUE /\ InitSessions({1})

NextRec ==
  \E s \in Sessions :
    \/ \E m \in RequestModels \cup {NoModel} : RecvStart(s, m, FALSE)
    \/ Len(sess[s].audio_chunks) < MaxChunks /\ RecvAudio(s, SmallChunk)
    \/ AudioGotSessionLock(s)
    \/ RecvStop(s)
    \/ StartGotSessionLock(s)
    \/ StartStep(s)
    \/ StopStep(s)
    \/ WatchdogStep(s)

SpecRec == InitRec /\ [][NextRec]_vars

\* the steps of handle_audio after the message was received
AudioStep(s) ==
  \/ AudioGotSessionLock(s)
  \/ AudioFullSent(s)
  \/ \E text \in Texts : AudioTranscribed(s, text)
  \/ AudioPartialSent(s)

\* one client that records long chunks, batch or continuous, up to the buffer cap
NextCap ==
  \E s \in Sessions :
    \/ Len(out[s]) < MaxCapOut /\ \E m \in RequestModels, c \in BOOLEAN : RecvStart(s, m, c)
    \/ RecvAudio(s, BigChunk)
    \/ RecvStop(s)
    \/ AudioStep(s)
    \/ StartGotSessionLock(s)
    \/ StartStep(s)
    \/ StopStep(s)
    \/ WatchdogStep(s)

SpecCap == InitRec /\ [][NextCap]_vars

\* two clients that start recordings; no watchdog deadline passes
InitStart == InitPool /\ downloaded = TRUE /\ InitSessions(Sessions)

NextStart ==
  \E s \in Sessions :
    \/ \E m \in RequestModels : RecvStart(s, m, FALSE)
    \/ StartStep(s)
    \/ StartGotModelLock(s)

SpecStart == InitStart /\ [][NextStart]_vars

\* the inputs of set_keep_warm
KeepWarmLists == {<<>>, <<MODEL_PARAKEET>>, <<"base">>, <<MODEL_PARAKEET, "base">>}
Durations == {"1h", "permanent"}

\* the steps of the pool handlers after their message was received
LoadStep(s) ==
  \/ \E ok \in BOOLEAN : DownloadDone(s, ok)
  \/ DownloadSent(s)
  \/ \E ok \in BOOLEAN : DownloadLoadDone(s, ok)
  \/ LoadModelGotLock(s)
  \/ LoadModelSentLocked(s)
  \/ \E ok \in BOOLEAN : LoadModelDone(s, ok)
  \/ WarmGotLock(s)
  \/ \E ok \in BOOLEAN : WarmLoadDone(s, ok)
  \/ WarmSent(s)
  \/ ReplySent(s)

\* two clients on every path that loads a model, Parakeet not yet downloaded
InitLoad == InitPool /\ downloaded = FALSE /\ InitSessions(Sessions)

NextLoad ==
  \E s \in Sessions :
    \/ Len(out[s]) < MaxLoadOut /\ RecvStart(s, MODEL_PARAKEET, FALSE)
    \/ Len(out[s]) < MaxLoadOut /\ RecvLoadModel(s, MODEL_PARAKEET)
    \/ Len(out[s]) < MaxLoadOut /\ RecvDownload(s)
    \/ Len(out[s]) < MaxLoadOut /\ RecvSetKeepWarm(s, <<MODEL_PARAKEET>>, "1h")
    \/ StartStep(s)
    \/ StartGotModelLock(s)
    \/ LoadStep(s)

SpecLoad == InitLoad /\ [][NextLoad]_vars

\* the steps of the keep-warm monitor
\* the steps of the monitor tasks when every engine.unload() returns
MonitorStep ==
  \/ \E i \in Tasks : MonitorWake(i, UnloadReturns)
  \/ \E i \in Tasks : MonitorGotLock(i, UnloadReturns)
  \/ \E i \in Tasks : MonitorNotified(i, UnloadReturns)
  \/ MonitorCancelled

\* one client that starts and stops recordings while models are loaded, evicted
\* and cleared; no watchdog deadline passes
NextEvict ==
  \/ \E s \in Sessions :
       \/ Len(out[s]) < MaxEvictOut /\ \E m \in RequestModels : RecvStart(s, m, FALSE)
       \/ RecvStop(s)
       \/ Len(out[s]) < MaxEvictOut /\ \E m \in RequestModels : RecvLoadModel(s, m)
       \/ Len(out[s]) < MaxEvictOut /\ RecvClearCache(s)
       \/ Len(out[s]) < MaxEvictOut
            /\ \E l \in {<<>>, <<"base">>}, d \in Durations : RecvSetKeepWarm(s, l, d)
       \/ StartStep(s)
       \/ StartGotModelLock(s)
       \/ StopFinalSent(s)
       \/ LoadModelGotLock(s)
       \/ ClearCacheGotLock(s)
       \/ WarmGotLock(s)
       \/ LoadModelSentLocked(s)
       \/ \E ok \in BOOLEAN : LoadModelDone(s, ok)
       \/ \E ok \in BOOLEAN : WarmLoadDone(s, ok)
       \/ WarmSent(s)
       \/ WarmJoined(s)
       \/ ReplySent(s)
       \/ \E k \in 1..MaxStarts : WatchdogCancelled(s, k)
  \/ MonitorStep
  \/ Tick

SpecEvict == InitRec /\ [][NextEvict]_vars

\* the same client under fair scheduling: the event loop runs every task that
\* is ready, and sends, executor calls and sleeps return; the client's own
\* messages (start, audio, stop) are never forced
FairRec ==
  \A s \in Sessions :
    /\ WF_vars(StartGotSessionLock(s))
    /\ WF_vars(StartStep(s))
    /\ WF_vars(StopStep(s))
    /\ WF_vars(WatchdogStep(s))
    /\ WF_vars(AudioGotSessionLock(s))

SpecRecFair == SpecRec /\ FairRec

\* what the model makes of the audio of session s: nothing, or the words of s
SessionText(s) == IF s = 1 THEN "a" ELSE "b"
TextsOf(s) == {"", SessionText(s)}

\* two clients that each record once on the one Parakeet engine in continuous
\* mode, with one chunk of 1.5 s, stop, and close their connections; a client
\* closes while its handler is idle or in handle_stop; no watchdog deadline
\* passes and the session lock is never contended
NextShare ==
  \E s \in Sessions :
    \/ s \notin closed /\ wd[s] = <<>> /\ RecvStart(s, MODEL_PARAKEET, TRUE)
    \/ s \notin closed /\ sess[s].audio_chunks = <<>> /\ RecvAudio(s, PartialChunk)
    \/ s \notin closed /\ Len(out[s]) < MaxShareOut /\ RecvStop(s)
    \/ (hpc[s] \in {"idle"} \cup StopPcs) /\ ClientCloses(s)
    \/ HandlerEnds(s)
    \/ StartStep(s)
    \/ StartGotModelLock(s)
    \/ \E text \in TextsOf(s) : AudioTranscribed(s, text)
    \/ AudioPartialSent(s)
    \/ \E o \in TextsOf(s) \cup {Raises} : StopTranscribed(s, o)
    \/ StopFinalSent(s)
    \/ \E k \in 1..MaxStarts : WatchdogCancelled(s, k)

SpecShare == InitStart /\ [][NextShare]_vars

\* the steps of the shutdown task
ShutdownStep ==
  \/ ShutdownStarts
  \/ ShutdownMonitorJoined
  \/ ShutdownGotSessionLock
  \/ ShutdownCloseReturned
  \/ ShutdownGotModelLock
  \/ ShutdownServerClosed

\* the process is signalled to terminate while client 1 records in continuous
\* mode and client 2 has switched the keep-warm monitor on; no watchdog deadline
\* passes and no model is idle long enough to be evicted
NextDrain ==
  \/ Len(out[1]) < MaxDrainOut /\ \E m \in RequestModels : RecvStart(1, m, TRUE)
  \/ sess[1].audio_chunks = <<>> /\ RecvAudio(1, PartialChunk)
  \/ RecvStop(1)
  \/ Len(out[2]) < MaxDrainOut /\ RecvSetKeepWarm(2, <<MODEL_PARAKEET>>, "1h")
  \/ \E s \in Sessions :
       \/ StartGotModelLock(s)
       \/ StartStep(s)
       \/ \E text \in Texts : AudioTranscribed(s, text)
       \/ AudioPartialSent(s)
       \/ \E o \in Outcomes : StopTranscribed(s, o)
       \/ StopFinalSent(s)
       \/ WarmGotLock(s)
       \/ \E ok \in BOOLEAN : WarmLoadDone(s, ok)
       \/ WarmSent(s)
       \/ ReplySent(s)
       \/ \E k \in 1..MaxStarts : WatchdogCancelled(s, k)
       \/ HandlerEnds(s)
  \/ \E i \in Tasks : MonitorWake(i, UnloadReturns)
  \/ MonitorCancelled
  \/ Signal
  \/ ShutdownStep

SpecDrain == InitStart /\ [][NextDrain]_vars

\* the steps of handle_transcribe_interval after the message was received
IntervalStep(s) ==
  \/ IntervalGotSessionLock(s)
  \/ hpc[s] = "interval_transcribing"
       /\ \E r \in EngineResults(engineObjs[sess[s].active_engine]) :
            IntervalTranscribed(s, r)
  \/ IntervalEmptySent(s)
  \/ IntervalSent(s)

\* one client that records in batch mode on Parakeet or Whisper and asks for
\* interval transcriptions between chunks of 1.5 s, while time passes; its
\* watchdog runs, and the client may close the connection
NextInterval ==
  \/ \E s \in Sessions :
       \/ s \notin closed /\ Len(wd[s]) < MaxStarts
            /\ \E m \in RequestModels : RecvStart(s, m, FALSE)
       \/ s \notin closed /\ Len(sess[s].audio_chunks) < MaxChunks
            /\ RecvAudio(s, PartialChunk)
       \/ Len(out[s]) < MaxIntervalOut /\ RecvInterval(s)
       \/ s \notin closed /\ Len(out[s]) < MaxIntervalOut /\ RecvStop(s)
       \/ hpc[s] \in {"idle", "interval_transcribing"} /\ ClientCloses(s)
       \/ HandlerEnds(s)
       \/ AudioGotSessionLock(s)
       \/ StartGotSessionLock(s)
       \/ StartStep(s)
       \/ StopStep(s)
       \/ IntervalStep(s)
       \/ WatchdogStep(s)
  \/ Tick

SpecInterval == InitRec /\ [][NextInterval]_vars

\* time.time() advances by d, up to the horizon of the keep-warm scenario
TimePasses(d) ==
  /\ now + d <= MaxWarmTime
  /\ now' = now + d
  /\ UNCHANGED <<sessVars, poolVars, last_inference_time, clientVars, warmVars>>

\* one client that keeps models warm for four hours or for ever, and starts
\* and stops recordings without audio, while hours pass between the monitor's
\* ticks; no watchdog deadline passes
NextWarm ==
  \/ \E s \in Sessions :
       \/ Len(out[s]) < MaxWarmOut /\ \E m \in RequestModels : RecvStart(s, m, FALSE)
       \/ RecvStop(s)
       \/ Len(out[s]) < MaxWarmOut
            /\ \E l \in {<<>>, <<"base">>}, d \in {"4h", "permanent"} :
                 RecvSetKeepWarm(s, l, d)
       \/ StartStep(s)
       \/ StartGotModelLock(s)
       \/ StopFinalSent(s)
       \/ WarmGotLock(s)
       \/ \E ok \in BOOLEAN : WarmLoadDone(s, ok)
       \/ WarmSent(s)
       \/ WarmJoined(s)
       \/ ReplySent(s)
       \/ \E k \in 1..MaxStarts : WatchdogCancelled(s, k)
  \/ MonitorStep
  \/ \E d \in {TimeStep, ShortStep} : TimePasses(d)

SpecWarm == InitRec /\ [][NextWarm]_vars

\* two clients that switch keep-warm on for "base" and off again, in any
\* interleaving of their handlers with the monitor; no time passes, so that no
\* model is idle long enough to be evicted
NextPin ==
  \/ \E s \in Sessions :
       \/ Len(out[s]) < MaxPinOut
            /\ \E l \in {<<>>, <<"base">>} : RecvSetKeepWarm(s, l, "4h")
       \/ WarmGotLock(s)
       \/ \E ok \in BOOLEAN : WarmLoadDone(s, ok)
       \/ WarmSent(s)
       \/ WarmJoined(s)
       \/ ReplySent(s)
  \/ \E i \in Tasks : MonitorWake(i, UnloadReturns)
  \/ MonitorCancelled

SpecPin == InitStart /\ [][NextPin]_vars

\* one client that starts recordings, sends text that is not JSON,
\* JSON that is not an object and a start whose settings are not an object, and
\* may close the connection while its handler is idle; the watchdog runs
NextDispatch ==
  \/ \E s \in Sessions :
       \/ s \notin closed /\ Len(out[s]) < MaxDispatchOut
            /\ \E m \in RequestModels : RecvStart(s, m, FALSE)
       \/ s \notin closed /\ RecvMalformed(s)
       \/ s \notin closed /\ Len(out[s]) < MaxDispatchOut /\ RecvNotObject(s)
       \/ s \notin closed /\ Len(out[s]) < MaxDispatchOut /\ RecvBadStart(s)
       \/ BadStartGotSessionLock(s)
       \/ DispatchErrorSent(s)
       \/ hpc[s] \in {"idle", "dispatch_error"} /\ ClientCloses(s)
       \/ HandlerEnds(s)
       \/ StartGotSessionLock(s)
       \/ StartStep(s)
       \/ \E k \in 1..MaxStarts :
            \/ WatchdogTimeout(s, k)
            \/ WatchdogSent(s, k)
            \/ WatchdogGotLock(s, k)
  \/ Tick

SpecDispatch == InitRec /\ [][NextDispatch]_vars

\* sequences of MaxCalls calls drawn from the set C
CallLists(C) == [1..MaxCalls -> C]
\* a session object without connection, and the calls to make, one of the
\* sequences of T
InitCalls(T) ==
  /\ InitPool /\ downloaded = TRUE
  /\ clients = {} /\ closed = {} /\ sd = NoShutdown
  /\ invalid_json = [s \in Sessions |-> 0]
  /\ sess = [s \in Sessions |-> NewSession]
  /\ slock = [s \in Sessions |-> FreeLock]
  /\ hpc = [s \in Sessions |-> "idle"]
  /\ hloc = [s \in Sessions |-> NoLocals]
  /\ wd = [s \in Sessions |-> <<>>]
  /\ out = [s \in Sessions |-> <<>>]
  /\ bench \in {[todo |-> q, done |-> <<>>] : q \in T}
InitBench(C) == InitCalls(CallLists(C))

\* chunks of no sample, of one sample, of a third, of a half and of the whole
\* of the buffer limit
ChunkLengths ==
  {0, 1, MAX_BUFFER_SAMPLES \div 3, MAX_BUFFER_SAMPLES \div 2, MAX_BUFFER_SAMPLES}
AddCalls == {Call("add_audio", n) : n \in ChunkLengths}

\* every sequence of MaxCalls add_audio calls on an empty buffer
NextAdd == AddAudioCall
SpecAdd == InitBench(AddCalls) /\ [][NextAdd]_vars

\* chunks of 0.5 s, 1 s and 1.5 s, and tails of 0 s, 0.5 s, 1 s and 2 s
TailChunks == {SAMPLE_RATE \div 2, SAMPLE_RATE, (3 * SAMPLE_RATE) \div 2}
TailSeconds == {0, 500, 1000, context_seconds}
TailCalls ==
  {Call("add_audio", n) : n \in TailChunks}
    \cup {Call("keep_audio_tail", ms) : ms \in TailSeconds}

\* every sequence of MaxCalls add_audio and keep_audio_tail calls on an empty
\* buffer
NextTail == AddAudioCall \/ KeepTailCall
SpecTail == InitBench(TailCalls) /\ [][NextTail]_vars

\* words and speaker turns on a grid of tenths of a second, and the word and
\* the two turns of the documented example
Speakers == {"SPEAKER_00", "SPEAKER_01"}
GridWords == {[start |-> a, end |-> b] : a \in 0..MaxT, b \in 0..MaxT}
GridTurns ==
  {[speaker |-> p, start |-> a, end |-> b] :
     p \in Speakers, a \in 0..MaxT, b \in 1..MaxT}
TurnLists == UNION {[1..n -> {g \in GridTurns : g.start < g.end}] : n \in 0..MaxTurns}
ExampleWord == [start |-> 10, end |-> 20]
ExampleTurns == <<[speaker |-> "SPEAKER_00", start |-> 0, end |-> 14],
                  [speaker |-> "SPEAKER_01", start |-> 14, end |-> 30]>>
AssignInputs ==
  {[word |-> w, segments |-> q] : w \in {g \in GridWords : g.start <= g.end},
                                  q \in TurnLists}
    \cup {[word |-> ExampleWord, segments |-> ExampleTurns]}

\* one call of assign_speakers_to_words on every such word and list of turns
InitAssign ==
  InitCalls({<<Call("assign_speakers_to_words", x)>> : x \in AssignInputs})
NextAssign == AssignCall
SpecAssign == InitAssign /\ [][NextAssign]_vars

\* two clients that start recordings on the one Parakeet engine and send no
\* audio, so that their watchdogs reach the deadline; a client may close its
\* connection while its handler is idle, and the process may be signalled to
\* terminate; no session lock is held across an await once Parakeet is loaded
NextDestroy ==
  \/ \E s \in Sessions :
       \/ s \notin closed /\ Len(out[s]) < MaxDestroyOut
            /\ RecvStart(s, MODEL_PARAKEET, FALSE)
       \/ hpc[s] = "idle" /\ ClientCloses(s)
       \/ HandlerEnds(s)
       \/ StartStep(s)
       \/ \E k \in 1..MaxStarts : WatchdogTimeout(s, k) \/ WatchdogSent(s, k)
  \/ Tick
  \/ Signal
  \/ ShutdownStarts
  \/ ShutdownCloseReturned
  \/ ShutdownGotModelLock
  \/ ShutdownServerClosed

SpecDestroy == InitStart /\ [][NextDestroy]_vars

\* ------------------------------------------------------------ observations
\* the positions of out[s] that hold a message of the given type
Positions(s, type) == {i \in 1..Len(out[s]) : out[s][i].type = type}
Emitted(s, m) == \E i \in 1..Len(out[s]) : out[s][i] = m
\* watchdog k of session s takes a step (only its own steps change its pc)
WatchdogActs(s, k) ==
  /\ k \in 1..Len(wd[s]) /\ k \in 1..Len(wd'[s])
  /\ wd'[s][k].pc # wd[s][k].pc
\* the engine session of the engine bound to s is over
EngineSessionEnded(s) ==
  \/ sess[s].active_engine = NoEngine
  \/ ~engineObjs[sess[s].active_engine].session_active
\* the recording state a watchdog or a stop resets
RecordingState(s) ==
  <<sess[s].is_recording, sess[s].audio_chunks, sess[s].total_samples,
    EngineSessionEnded(s)>>
\* recording k of session s (the k-th recording_ready) was stopped by handle_stop:
\* a final was sent after it, or its final transcription is running
StoppedByStop(s, k) ==
  /\ Cardinality(Positions(s, "recording_ready")) >= k
  /\ \/ \E i \in Positions(s, "final") :
          Cardinality({j \in Positions(s, "recording_ready") : j < i}) >= k
     \/ /\ hpc[s] \in {"stop_transcribing", "stop_final_send"}
        /\ sess[s].audio_watchdog_task = k

\* ------------------------------------------------------------ claims C7-C10
\* C7: once a recording was stopped by handle_stop (a stop message or the forced
\* stop at the buffer cap), the watchdog armed for that recording takes no step
\* that sends no_audio_timeout or changes the session's recording flag, buffer
\* or engine session.
C7_StoppedRecordingWatchdogSilent ==
  [][\A s \in Sessions : \A k \in 1..MaxStarts :
       (StoppedByStop(s, k) /\ WatchdogActs(s, k))
         => /\ out'[s] = out[s]
            /\ RecordingState(s)' = RecordingState(s)]_vars

\* C8: once the first audio chunk of a recording was handled, the watchdog of
\* that recording takes no step that sends no_audio_timeout or resets the
\* session, wherever the watchdog was suspended when the chunk arrived.
C8_FirstAudioSilencesWatchdog ==
  [][\A s \in Sessions :
       LET k == sess[s].audio_watchdog_task IN
       (k # 0 /\ sess[s].first_audio_received /\ WatchdogActs(s, k))
         => /\ out'[s] = out[s]
            /\ RecordingState(s)' = RecordingState(s)]_vars

\* the scenario of C10 has run: one recording, its first chunk handled, no stop
\* sent, and the watchdog of the recording has ended
OneChunkThenSilence(s) ==
  /\ Len(wd[s]) = 1 /\ wd[s][1].pc = "done"
  /\ sess[s].first_audio_received
  /\ hpc[s] = "idle"
  /\ Positions(s, "final") = {}

\* C10 as written: after start, one 0.3 s chunk and then silence, the server
\* has sent no_audio_timeout and reset the session.
C10_TimeoutAfterOneChunk ==
  \A s \in Sessions :
    OneChunkThenSilence(s)
      => /\ Emitted(s, NoAudioTimeout)
         /\ ~sess[s].is_recording
         /\ sess[s].audio_chunks = <<>>
         /\ EngineSessionEnded(s)

\* C10 amended: a first chunk handled while the watchdog is still in its sleep
\* cancels the watchdog; the cancelled watchdog ends without sending anything
\* and without touching the session, so the recording goes on with the chunk
\* buffered.
C10_ChunkInSleepCancelsWatchdog ==
  [][\A s \in Sessions :
       LET k == sess[s].audio_watchdog_task IN
       (/\ k # 0 /\ sess[s].first_audio_received
        /\ wd[s][k].pc = "sleep" /\ wd[s][k].must_cancel
        /\ WatchdogActs(s, k))
         => /\ wd'[s][k].pc = "done"
            /\ out'[s] = out[s]
            /\ sess'[s] = sess[s]
            /\ engineObjs' = engineObjs]_vars

\* start, one 0.3 s chunk, the watchdog cancelled in its sleep: still recording,
\* the chunk buffered, no no_audio_timeout
C10_Witness ==
  /\ OneChunkThenSilence(1)
  /\ sess[1].is_recording
  /\ sess[1].audio_chunks = <<SmallChunk>>
  /\ ~Emitted(1, NoAudioTimeout)

\* the deadline of a watchdog of s passed with the session recording and no
\* audio received: the watchdog is in send_error with no_audio_timeout
TimedOutWithoutAudio(s) == \E k \in 1..Len(wd[s]) : wd[s][k].pc = "sending"
\* the recording of s is stopped and reset
RecordingReset(s) ==
  /\ Emitted(s, NoAudioTimeout)
  /\ ~sess[s].is_recording
  /\ sess[s].audio_chunks = <<>> /\ sess[s].total_samples = 0
  /\ EngineSessionEnded(s)

\* C9: when the watchdog's deadline passes while the session is recording and
\* has received no audio, the recording is eventually stopped: no_audio_timeout
\* was sent and the session is not recording, its buffer empty and its engine
\* session ended.
C9_TimeoutStopsRecording ==
  \A s \in Sessions : TimedOutWithoutAudio(s) ~> RecordingReset(s)

\* ------------------------------------------------------------ claims C1-C2
RECURSIVE SumSeq(_)
SumSeq(q) == IF q = <<>> THEN 0 ELSE Head(q) + SumSeq(Tail(q))

\* the running total is the size of the chunk list and is within the cap
BufferWithinCap ==
  \A s \in Sessions :
    /\ sess[s].total_samples <= MAX_BUFFER_SAMPLES
    /\ sess[s].total_samples = SumSeq(sess[s].audio_chunks)
\* handle_audio takes the branch of a rejected add_audio (returned False) only
\* for a chunk that does not fit, and the buffer is as before
RejectLeavesBuffer ==
  \A s \in Sessions :
    (hpc[s] # "audio_full_send" /\ hpc'[s] = "audio_full_send")
      => /\ sess[s].total_samples + BigChunk > MAX_BUFFER_SAMPLES
         /\ sess'[s].audio_chunks = sess[s].audio_chunks
         /\ sess'[s].total_samples = sess[s].total_samples

ForcedStopBlocked(s) == hpc[s] = "stop_slock" /\ slock[s].holder = Handler(s)

\* C2: after a chunk was rejected at the buffer cap and the error was sent, the
\* forced stop runs to completion and the session stays usable: the handler of
\* the session never blocks forever, as it does once it waits for a lock that
\* it holds.
C2_ForcedStopNeverBlocks == \A s \in Sessions : ~ForcedStopBlocked(s)

\* ------------------------------------------------------------ claims C3-C6
\* C3: when two sessions start the same unloaded model concurrently, one
\* external load happens for it: a load runs only under the model lock, so the
\* second session waits for the lock; a model never has an engine and a load in
\* flight, two loads in flight or two engines; and the sessions that record on
\* the model share its one engine.
C3_OneLoadForConcurrentStarts ==
  /\ \A s \in Sessions : hpc[s] = "start_loading" => mlock.holder = Handler(s)
  /\ \A m \in ValidModels :
       Cardinality(LoadsInFlight(m)) + Cardinality(EnginesOf(m)) <= 1
  /\ \A s1, s2 \in Sessions :
       (/\ sess[s1].is_recording /\ sess[s2].is_recording
        /\ sess[s1].active_model = sess[s2].active_model)
         => sess[s1].active_engine = sess[s2].active_engine

\* session 1 loads the model that session 2 has asked for as well: session 2
\* waits for the model lock
C3_Witness ==
  /\ hpc[1] = "start_loading" /\ hpc[2] = "start_mlock"
  /\ hloc[1].model = hloc[2].model
  /\ mlock.holder = Handler(1) /\ mlock.waiters = <<Handler(2)>>

\* C4: on every path that loads a model (start, load_model, set_keep_warm,
\* download_model) no model id is loaded twice: never two external loads in
\* flight for one model id, never a load in flight for a model that is loaded,
\* never a second engine object for a model id.
C4_NoModelLoadedTwice ==
  \A m \in ValidModels :
    /\ Cardinality(LoadsInFlight(m)) <= 1
    /\ m \in loaded_models => LoadsInFlight(m) = {}
    /\ Cardinality(EnginesOf(m)) <= 1

\* a transcription call of session s is running in the executor
TranscriptionInFlight(s) ==
  hpc[s] \in {"audio_transcribing", "stop_transcribing", "interval_transcribing"}

\* C5: no engine is unloaded (by keep-warm eviction or by clear_cache) while a
\* transcription on it is in flight or while a recording session is bound to
\* it: the engine of such a session is loaded.
C5_NoUnloadWhileInUse ==
  \A s \in Sessions :
    ((sess[s].is_recording \/ TranscriptionInFlight(s)) /\ sess[s].active_engine # NoEngine)
      => engineObjs[sess[s].active_engine].is_loaded

DefaultMovesToLoaded ==
  default_model' # default_model => default_model' \in loaded_models'
\* an unload that removes the default model and leaves another model loaded
\* moves the default to a loaded model
UnloadMovesDefault ==
  (/\ default_model \in loaded_models /\ default_model \notin loaded_models'
   /\ loaded_models' # {})
    => default_model' \in loaded_models'

StopEnters(s) ==
  /\ hpc[s] \in {"idle", "stop_slock"} /\ hpc'[s] \in StopPcs
  /\ sess[s].is_recording
\* a stop message of s waits for the session lock
StopWaits(s) == hpc[s] = "stop_slock" /\ ~hloc[s].nested /\ hpc'[s] = "stop_slock"
\* the last message sent to s
LastOut(s) == out[s][Len(out[s])]

\* C11: a stop on a recording session with zero buffered samples is answered
\* with final{text: ""} (the timestamp is the constant 0 on every final) and no
\* transcription call is made on any engine; while the stop waits for the
\* session lock, the recording flag and the empty buffer stay as they were.
C11_EmptyStopAnswersEmptyFinal ==
  [][\A s \in Sessions :
       /\ (StopEnters(s) /\ sess[s].total_samples = 0)
            => /\ out'[s] = Append(out[s], Msg("final", ""))
               /\ hpc'[s] = "stop_final_send"
               /\ ~hloc'[s].engine_called
               /\ engineObjs' = engineObjs
       /\ StopWaits(s)
            => /\ sess'[s].is_recording = sess[s].is_recording
               /\ sess'[s].total_samples = sess[s].total_samples]_vars

\* the stop handler of s returns from its locked section
StopDone(s) ==
  /\ hpc'[s] = "idle"
  /\ hpc[s] \in StopPcs \/ (hpc[s] = "stop_slock" /\ sess[s].is_recording)

\* C12: when a stop message on a recording session has been handled, whatever
\* the final transcription ended with (a text, the empty text, an exception of
\* the engine or of the send to a closed connection), the buffer is empty, the
\* session is not recording and the session of the bound engine is ended; and
\* when the engine's transcription raised, the handler has sent an error
\* message.
C12_StopAlwaysCleansUp ==
  [][\A s \in Sessions :
       StopDone(s)
         => /\ sess'[s].audio_chunks = <<>> /\ sess'[s].total_samples = 0
            /\ ~sess'[s].is_recording
            /\ EngineSessionEnded(s)'
            /\ hloc[s].raised => LastOut(s).type = "error"]_vars

\* ------------------------------------------------------------ claim C13
\* a step of the connection of b: its handler moves or its connection ends
StepOf(b) == hpc'[b] # hpc[b] \/ (b \in clients /\ b \notin clients')
\* session a records on an engine whose session bracket is open
InBracket(a) ==
  /\ sess[a].is_recording /\ sess[a].active_engine # NoEngine
  /\ engineObjs[sess[a].active_engine].session_active
\* a step of b leaves the bracket and the cached partial of a's engine alone
LeavesBracket(a, b) ==
  LET e == sess[a].active_engine IN
  (InBracket(a) /\ hpc'[a] = hpc[a] /\ StepOf(b))
    => /\ engineObjs'[e].session_active
       /\ engineObjs'[e].last_transcription = engineObjs[e].last_transcription
\* every partial and final delivered to s is made of the audio of s
OwnTexts(s) ==
  \A i \in Positions(s, "partial") \cup Positions(s, "final") :
    out[s][i].arg \in TextsOf(s)

\* C13: sessions bound to the same engine are isolated: a start, stop,
\* disconnect or partial transcription of session B never ends the engine
\* session of a recording session A and never changes the partial cached for A,
\* and every partial and final text delivered to A was produced from A's own
\* audio (the empty-final fallback included).
C13_SessionsIsolated ==
  /\ [](\A s \in Sessions : OwnTexts(s))
  /\ [][\A a, b \in Sessions : a # b => LeavesBracket(a, b)]_vars

\* ------------------------------------------------------------ claim C14
\* the message types whose handler can be at position pc
HandlersAt(pc) ==
  CASE pc \in {"start_slock", "start_mlock", "start_loading", "start_retry_sleep",
               "start_sent_loaded", "start_err_send", "start_diar_loading",
               "start_send_ready"} -> {"start"}
    [] pc \in {"audio_slock", "audio_slock2", "audio_transcribing",
               "audio_partial_send", "audio_full_send"} -> {"audio"}
    [] pc \in {"stop_slock"} \cup StopPcs -> {"stop"}
    [] pc \in {"interval_slock", "interval_transcribing", "interval_send",
               "interval_empty_send"} -> {"transcribe_interval"}
    [] pc \in {"download_wait", "download_sent", "download_loading"} -> {"download_model"}
    [] pc \in {"load_mlock", "load_sent_locked", "load_loading"} -> {"load_model"}
    [] pc \in {"clear_mlock"} -> {"clear_cache"}
    [] pc \in {"warm_join", "warm_joined", "warm_mlock", "warm_loading", "warm_sent"} -> {"set_keep_warm"}
    [] pc = "reply_send" -> {"download_model", "load_model", "clear_cache", "set_keep_warm"}
    [] OTHER -> {}
\* positions p and q can belong to the handling of one message (the forced stop
\* at the buffer cap is part of the handling of the audio message)
SameMessage(p, q) ==
  \/ HandlersAt(p) \cap HandlersAt(q) # {}
  \/ p = "audio_full_send" /\ HandlersAt(q) = {"stop"}

\* C14: the messages of a connection are handled one at a time, in the order
\* they are taken from the connection: while the handler of a message is
\* suspended (in a model load, a transcription, a send, a lock), no other
\* handler of that connection begins; the position of the connection's handler
\* leaves the handling of a message only by returning.
C14_OneHandlerPerConnection ==
  [][\A s \in Sessions :
       hpc'[s] # hpc[s]
         => \/ hpc[s] = "idle" \/ hpc'[s] = "idle"
            \/ SameMessage(hpc[s], hpc'[s])]_vars

\* the handler of a stop is suspended in the final transcription, after the
\* handler of the start before it was suspended in the model load and returned
C14_Witness ==
  /\ hpc[1] = "stop_transcribing"
  /\ Emitted(1, Msg("model_loaded", MODEL_PARAKEET))
  /\ Emitted(1, Msg("recording_ready", MODEL_PARAKEET))

\* ------------------------------------------------------------ claims C15-C16
\* the steps of the drain sequence, in the order of shutdown()
SdPhase(pc) ==
  CASE pc = "none" -> 0
    [] pc = "monitor_join" -> 1
    [] pc = "sd_slock" -> 2
    [] pc = "closing" -> 3
    [] pc = "sd_mlock" -> 4
    [] pc = "wait_closed" -> 5
    [] pc = "done" -> 6
\* the shutdown task takes a step
SdActs == sd'.pc # sd.pc \/ sd'.todo # sd.todo
\* task t enters lock l in this step: the lock is free or released to t
Acquirable(l, t) == IsFree(l) \/ Grantable(l, t)
\* the shutdown changes a recording session only in a step in which it has
\* that session's lock, and leaves it stopped and cleaned up
StopsUnderLock ==
  \A s \in Sessions :
    (SdActs /\ sess[s].is_recording /\ sess'[s] # sess[s])
      => /\ Acquirable(slock[s], SdTask)
         /\ ~sess'[s].is_recording
         /\ sess'[s].audio_chunks = <<>> /\ sess'[s].total_samples = 0
         /\ EngineSessionEnded(s)'
\* when the shutdown goes on to the connections, no connected session records
StoppedBeforeClose ==
  (SdPhase(sd.pc) < 3 /\ SdPhase(sd'.pc) >= 3)
    => \A s \in clients : ~sess'[s].is_recording
\* the shutdown unloads the models in one step, in which it has the model lock,
\* and the endpoint is closed in no earlier step
UnloadsUnderLock ==
  /\ (SdActs /\ (engines' # engines \/ loaded_models' # loaded_models))
       => Acquirable(mlock, SdTask) /\ loaded_models' = {}
  /\ (sd.listening /\ ~sd'.listening)
       => /\ loaded_models' = {}
          /\ SdPhase(sd.pc) \in {3, 4} \/ clients = {}

C16_DrainWaitsForTranscription ==
  [][\A s \in Sessions :
       LET e == sess[s].active_engine IN
       (SdActs /\ TranscriptionInFlight(s) /\ e # NoEngine /\ engineObjs[e].is_loaded)
         => engineObjs'[e].is_loaded]_vars

\* ------------------------------------------------------------ claims C17-C19
\* the results of interval passes among the messages sent to s (the early
\* returns send no speakers field)
IsPassResult(m) == m.type = "interval_transcription" /\ "speakers" \in DOMAIN m
\* the pass whose result is the last message of s is not the first pass of its
\* recording: another result was sent since the last recording_ready
NotFirstPass(s) ==
  \E i \in 1..(Len(out[s]) - 1) :
    /\ IsPassResult(out[s][i])
    /\ \A j \in (i + 1)..Len(out[s]) : out[s][j].type # "recording_ready"
\* the words of a result that start at 1.5 s or later, in their order
AfterContext(words) == SelectSeq(words, LAMBDA w : ~(w < 1500))

\* C17: the result of an interval pass that is not the first of its recording
\* holds exactly the engine's words that start at or after C - 0.5 s = 1.5 s,
\* in the engine's order; the result of the first pass holds all the engine's
\* words.  Of words starting at 0.1, 1.0, 2.3 and 3.0 s a later pass keeps 2.3
\* and 3.0.
C17_ContextWordsSkipped ==
  \A s \in Sessions :
    hpc[s] = "interval_send" =>
      /\ IsPassResult(LastOut(s))
      /\ LastOut(s).words =
           IF NotFirstPass(s) THEN AfterContext(hloc[s].result) ELSE hloc[s].result
      /\ NotFirstPass(s) /\ hloc[s].result = <<100, 1000, 2300, 3000>>
           => LastOut(s).words = <<2300, 3000>>

\* a second pass of a recording on Whisper was given words at 0.1, 1.0, 2.3 and
\* 3.0 s and has sent the last two
C17_Witness ==
  \E s \in Sessions :
    /\ hpc[s] = "interval_send" /\ NotFirstPass(s)
    /\ hloc[s].result = <<100, 1000, 2300, 3000>>
    /\ LastOut(s).words = <<2300, 3000>>

\* a transcribe_interval of s is being handled
IntervalPcs == {"interval_slock", "interval_transcribing", "interval_send",
                "interval_empty_send"}
\* s records and holds less than 3.0 s of audio
ShortRecording(s) == sess[s].is_recording /\ sess[s].total_samples < 3 * SAMPLE_RATE
\* the handler of a transcribe_interval passes the session lock in this step
IntervalEnters(s) ==
  /\ hpc[s] \in {"idle", "interval_slock"}
  /\ hpc'[s] \in IntervalPcs \ {"interval_slock"}
\* the empty reply and nothing else
AnswersEmpty(s) ==
  /\ hpc'[s] = "interval_empty_send"
  /\ out'[s] = Append(out[s], EmptyInterval)
  /\ ~hloc'[s].engine_called
  /\ sess'[s] = sess[s]
  /\ engineObjs' = engineObjs
  /\ last_inference_time' = last_inference_time
\* the frame of the early return: the empty reply is all it does
ShortBufferFrame ==
  \A s \in Sessions :
    /\ IntervalEnters(s) /\ ShortRecording(s) => AnswersEmpty(s)
    /\ hpc[s] = "interval_empty_send"
         => /\ sess'[s] = sess[s]
            /\ last_inference_time' = last_inference_time
            /\ hpc'[s] \in {"interval_empty_send", "idle"}
\* a request that waits for the session lock of a recording session is not
\* overtaken by the end of the recording, after which it returns unanswered
WaitingRequestAnswered ==
  \A s \in Sessions :
    hpc[s] = "interval_slock" /\ hpc'[s] = "interval_slock" /\ ShortRecording(s)
      => sess'[s].is_recording

\* C18: a transcribe_interval requested on a recording session that holds less
\* than C + 1.0 s = 3.0 s of audio is answered with interval_transcription,
\* text "" and is_final false, and does nothing else: no engine is called, and
\* the buffer, has_done_first_interval and last_inference_time stay as they are.
C18_ShortBufferEmptyReply == [][ShortBufferFrame /\ WaitingRequestAnswered]_vars

\* the result of a pass is sent to s in this step
ResultSent(s) ==
  /\ Len(out'[s]) = Len(out[s]) + 1
  /\ IsPassResult(out'[s][Len(out'[s])])
\* the send of the result has returned in this step
PassCompletes(s) == hpc[s] = "interval_send" /\ hpc'[s] # "interval_send"
\* the three changes that follow the result
Bookkeeping(s) ==
  /\ sess'[s].has_done_first_interval
  /\ last_inference_time'[sess[s].active_model] = now
  /\ sess'[s].total_samples = 2 * SAMPLE_RATE
  /\ sess'[s].audio_chunks = <<2 * SAMPLE_RATE>>
NoBookkeeping(s) ==
  /\ sess'[s].has_done_first_interval = sess[s].has_done_first_interval
  /\ last_inference_time' = last_inference_time
  /\ sess'[s].total_samples = sess[s].total_samples
  /\ sess'[s].audio_chunks = sess[s].audio_chunks
\* a pass on at least 3.0 s: the result first and unchanged state with it, then
\* the flag, the time and the tail of 32000 samples together
PassInOrder ==
  \A s \in Sessions :
    /\ ResultSent(s)
         => /\ sess[s].total_samples >= 3 * SAMPLE_RATE
            /\ ~out'[s][Len(out'[s])].is_final
            /\ NoBookkeeping(s)
    /\ PassCompletes(s)
         => /\ \E i \in 1..Len(out[s]) : IsPassResult(out[s][i])
            /\ Bookkeeping(s)
    /\ (hpc[s] \in {"interval_transcribing", "interval_send"} /\ ~PassCompletes(s))
         => NoBookkeeping(s)
\* a pass whose transcription raised, or whose send raised on a closed
\* connection, sends an error in place of the result and changes nothing
RaisedPassReported ==
  \A s \in Sessions :
    /\ hpc[s] # "interval_send" /\ hpc'[s] = "interval_send" => ~hloc'[s].raised
    /\ hpc[s] = "interval_transcribing" /\ hpc'[s] = "idle" => NoBookkeeping(s)

\* C19: an interval pass on a buffer of at least C + 1.0 s that succeeds sends
\* a non-final interval_transcription, and then sets has_done_first_interval,
\* sets the bound model's last_inference_time to now and cuts the buffer to its
\* last C seconds (32000 samples); a pass that raises makes none of the three
\* changes and sends an error instead.
C19_PassThenBookkeeping == [][PassInOrder /\ RaisedPassReported]_vars

\* ------------------------------------------------------------ claim C20
\* the monitor wakes from its sleep and sets out to unload models in this step
TickEvicts == kw.pc = "sleep" /\ kw'.pc \in {"notify", "unload_mlock"}
\* the models the step unloads or lists for unloading
Marked ==
  (loaded_models \ loaded_models') \cup {kw'.todo[i] : i \in 1..Len(kw'.todo)}
\* the time for which a model with a recorded inference has not been used
IdleTime(m) == now - last_inference_time[m]
\* the loaded models that have been idle for more than four hours
IdleBeyondFourHours ==
  {m \in loaded_models : last_inference_time[m] # None /\ IdleTime(m) > 4 * 3600}
\* a tick that finds such a model does not pass it over
TickDue ==
  /\ kw.pc = "sleep" /\ ~kw.must_cancel /\ keep_warm_enabled
  /\ keep_warm_duration = "4h" /\ IdleBeyondFourHours # {}

\* C20: a tick of the keep-warm monitor evicts exactly the loaded models whose
\* idle time now - last_inference_time is strictly greater than the threshold of
\* the duration in force at the tick: with "4h" (14400 s) a model idle for
\* 5000 s or for just 14400 s stays and a model idle for 15000 s is evicted;
\* a tick under "permanent" evicts no model.
C20_EvictsBeyondThreshold ==
  /\ [][TickEvicts => /\ Marked = IdleBeyondFourHours
                       /\ \A m \in Marked : IdleTime(m) \notin {5000, 14400}]_vars
  /\ [][keep_warm_duration = "permanent" => ~TickEvicts]_vars
  /\ [](TickDue => ENABLED <<MonitorWake(0, UnloadReturns)>>_vars)

\* four hours and ten minutes after its last inference, under "4h", the model
\* has just been evicted by the tick
C20_Witness ==
  /\ kw.pc = "notify" /\ keep_warm_duration = "4h"
  /\ now = 15000
  /\ loaded_models = {} /\ Len(engineObjs) > 0

\* ------------------------------------------------------------ claim C21
\* the monitor unloads model m in this step
MonitorUnloads(m) ==
  /\ kw.pc \in {"sleep", "unload_mlock", "notify"} /\ kw'.pc = "notify"
  /\ m \in loaded_models /\ m \notin loaded_models'

\* C21 as stated: the monitor never evicts a model of the keep-warm set,
\* whatever its idle time.
C21_PinnedNeverEvicted ==
  [][\A m \in ValidModels : MonitorUnloads(m) => m \notin keep_warm_models]_vars

\* C21: the keep-warm set exempts no model from idle eviction: a tick that
\* evicts takes every loaded model idle beyond the threshold, the models of the
\* keep-warm set among them, and it takes no model that is within the threshold.
C21_PinnedEvictedWhenIdle ==
  [][TickEvicts =>
       \A m \in loaded_models :
         last_inference_time[m] # None =>
           (m \in Marked <=> IdleTime(m) > DurationSeconds(keep_warm_duration))]_vars

\* the monitor has evicted the one model of the keep-warm set, and an unpinned
\* model that is within the threshold stays loaded
C21_Witness ==
  /\ kw.pc = "notify" /\ keep_warm_models = {"base"}
  /\ loaded_models = {MODEL_PARAKEET}
  /\ last_inference_time[MODEL_PARAKEET] # None
  /\ \E e \in 1..Len(engineObjs) : engineObjs[e].model = "base" /\ ~engineObjs[e].is_loaded

\* ------------------------------------------------------------ claim C22
\* the monitor tasks that have not ended
RunningMonitors == {i \in Tasks : Task(i).pc \notin {"none", "done"}}
\* every set_keep_warm request has completed
NoRequestPending == \A s \in Sessions : hpc[s] = "idle"

\* C22: once every set_keep_warm request has completed, a monitor runs if and
\* only if the keep-warm set is not empty, and never does more than one
\* monitor task run.
C22_MonitorIffPinned ==
  /\ NoRequestPending => (RunningMonitors # {} <=> keep_warm_models # {})
  /\ Cardinality(RunningMonitors) <= 1

\* the part on the number of tasks, and the part on the set being non-empty
C22_AtMostOneMonitor == Cardinality(RunningMonitors) <= 1
C22_PinnedHasMonitor ==
  NoRequestPending /\ keep_warm_models # {} => RunningMonitors # {}
C22_MonitorHasPinned ==
  NoRequestPending /\ RunningMonitors # {} => keep_warm_models # {}

\* ------------------------------------------------------------ claim C23
\* where handle_start is between its first load attempt and its return
StartLoadPcs == {"start_loading", "start_retry_sleep"}
\* the step in which the retry loop of s gives up (lines 584-585)
RetriesExhausted(s) == hpc[s] \in StartLoadPcs /\ hpc'[s] = "start_err_send"
\* the recording flag, the buffer and the engine binding of a session
Recording(S) == <<S.is_recording, S.audio_chunks, S.total_samples, S.active_engine,
                  S.active_model>>
\* the external loader is awaited for attempt 1 and 2 only, and a failed last
\* attempt is not followed by another
AtMostTwoLoads ==
  \A s \in Sessions :
    /\ hpc[s] = "start_loading" => hloc[s].attempt < 2
    /\ hpc'[s] = "start_loading" /\ hpc[s] # "start_loading" =>
         hloc'[s].attempt = IF hpc[s] = "start_retry_sleep" THEN hloc[s].attempt ELSE 0
    /\ hpc[s] = "start_loading" /\ hpc'[s] = "start_retry_sleep" =>
         hloc'[s].attempt = hloc[s].attempt + 1
\* from the first attempt to the return after the error nothing of the session
\* and of the pool changes, and the error is the one message that is sent
FailureLeavesNoTrace ==
  \A s \in Sessions :
    hpc[s] \in StartLoadPcs \cup {"start_err_send"}
      /\ hpc'[s] \in StartLoadPcs \cup {"start_err_send", "idle"} =>
        /\ Recording(sess'[s]) = Recording(sess[s])
        /\ engines' = engines /\ loaded_models' = loaded_models
        /\ engineObjs' = engineObjs
        /\ RetriesExhausted(s) \/ out'[s] = out[s]
ExhaustionSends(s, type) ==
  RetriesExhausted(s) =>
    /\ hloc[s].attempt = 1
    /\ \E msg \in {out'[s][Len(out'[s])]} :
         out'[s] = Append(out[s], msg) /\ msg.type = type

\* C23: a start request for a model that is not loaded awaits the external
\* loader at most twice; when both attempts fail a model_error message is
\* sent, no recording_ready, no pool entry is made, and the session's recording
\* flag, buffer and engine binding stay as they were.
C23_TwoLoadsThenModelError ==
  [][/\ AtMostTwoLoads
     /\ FailureLeavesNoTrace
     /\ \A s \in Sessions : ExhaustionSends(s, "model_error")]_vars

\* the same with the message that handle_start sends: type "error"
C23_TwoLoadsThenError ==
  [][/\ AtMostTwoLoads
     /\ FailureLeavesNoTrace
     /\ \A s \in Sessions : ExhaustionSends(s, "error")]_vars

\* ------------------------------------------------------------ claim C24
\* the handler of s is back in "async for message in websocket" and holds or
\* awaits no lock
DispatchReady(s) ==
  /\ hpc[s] = "idle"
  /\ slock[s].holder # Handler(s) /\ mlock.holder # Handler(s)
  /\ \A i \in 1..Len(slock[s].waiters) : slock[s].waiters[i] # Handler(s)
\* the connection of s ends in this step
ConnectionEnds(s) == s \in clients /\ s \notin clients'
\* json.loads rejects the message of s in this step
MalformedReceived(s) == invalid_json'[s] > invalid_json[s]
\* the exception of a message of s reaches handle_message in this step, the
\* connection being open
ExceptionCaught(s) == hpc[s] # "dispatch_error" /\ hpc'[s] = "dispatch_error"
ErrorReplyReturns(s) == hpc[s] = "dispatch_error" /\ hpc'[s] # "dispatch_error"

RECURSIVE SumOf(_)
SumOf(q) == IF q = <<>> THEN 0 ELSE Head(q) + SumOf(Tail(q))
\* the lengths of the chunks that the calls made so far accepted
AcceptedLengths ==
  LET acc == SelectSeq(bench.done, LAMBDA c : c.op = "add_audio" /\ c.ret) IN
  [i \in 1..Len(acc) |-> acc[i].arg]
OnlyAdds == \A i \in 1..Len(bench.done) : bench.done[i].op = "add_audio"

\* C25: after add_audio calls only, total_samples is the sum of the lengths of
\* the accepted chunks and of the stored chunks, and once a chunk of length n
\* was rejected every later chunk of length n or more is rejected.
C25_SumAndMonotonicRejection ==
  OnlyAdds =>
    /\ sess[1].total_samples = SumOf(AcceptedLengths)
    /\ sess[1].total_samples = SumOf(sess[1].audio_chunks)
    /\ sess[1].audio_chunks = AcceptedLengths
    /\ \A i, j \in 1..Len(bench.done) :
         i < j /\ ~bench.done[i].ret /\ bench.done[j].arg >= bench.done[i].arg
           => ~bench.done[j].ret

\* a chunk was rejected, a shorter one was accepted after it, and a chunk as
\* long as the rejected one was rejected again
C25_Witness ==
  /\ OnlyAdds /\ Len(bench.done) = 4
  /\ bench.done[1].ret
  /\ ~bench.done[2].ret
  /\ bench.done[3].ret /\ bench.done[3].arg > 0 /\ bench.done[3].arg < bench.done[2].arg
  /\ ~bench.done[4].ret /\ bench.done[4].arg = bench.done[2].arg

\* ------------------------------------------------------------ claim C26
\* keep_audio_tail(ms) is called in this step and does what the claim says:
\* nothing on a buffer of at most ms, else it leaves int(16000 * s) samples,
\* fewer than before; and a second call would change nothing
KeepTailAsClaimed(ms) ==
  LET B == sess[1]
      A == sess'[1]
      k == (SAMPLE_RATE * ms) \div 1000 IN
  /\ keep_audio_tail(A, ms) = A
  /\ IF B.total_samples * 1000 <= ms * SAMPLE_RATE
     THEN A = B
     ELSE /\ A.total_samples = k /\ SumOf(A.audio_chunks) = k
          /\ A.total_samples < B.total_samples

\* C26: for every s >= 0 and every buffer, keep_audio_tail(s) leaves a buffer
\* of at most s seconds unchanged and is idempotent, and cuts a longer buffer
\* to exactly int(16000 * s) samples, strictly fewer than before.
C26_KeepTailExact ==
  [][NextCallIs("keep_audio_tail") => KeepTailAsClaimed(Head(bench.todo).arg)]_vars

\* the same for s > 0 only
C26_KeepTailExactPositive ==
  [][NextCallIs("keep_audio_tail") /\ Head(bench.todo).arg > 0
       => KeepTailAsClaimed(Head(bench.todo).arg)]_vars

\* ------------------------------------------------------------ claim C28
\* the positions of the turns that contain the midpoint, and of the turns of
\* maximum overlap, of the word
MidTurns(word, segs) == {i \in 1..Len(segs) : ContainsMid(segs[i], word)}
MaxOverlap(word, segs) ==
  IF segs = <<>> THEN 0
  ELSE CHOOSE v \in {Overlap(segs[i], word) : i \in 1..Len(segs)} :
         \A i \in 1..Len(segs) : Overlap(segs[i], word) <= v
TurnsOfMaxOverlap(word, segs) ==
  {i \in 1..Len(segs) : Overlap(segs[i], word) = MaxOverlap(word, segs)}
\* the assignment that the claim describes; a tie is one between turns of
\* different speakers
AssignedAsClaimed(word, segs, label) ==
  IF MidTurns(word, segs) # {}
  THEN \E i \in MidTurns(word, segs) : label = segs[i].speaker
  ELSE IF MaxOverlap(word, segs) = 0 THEN label = "Unknown"
  ELSE IF \E i, j \in TurnsOfMaxOverlap(word, segs) : segs[i].speaker # segs[j].speaker
  THEN label = "Unknown"
  ELSE \E i \in TurnsOfMaxOverlap(word, segs) : label = segs[i].speaker
\* the same with the first turn of maximum overlap winning a tie
AssignedFirstMax(word, segs, label) ==
  IF MidTurns(word, segs) # {}
  THEN \E i \in MidTurns(word, segs) : label = segs[i].speaker
  ELSE IF MaxOverlap(word, segs) = 0 THEN label = "Unknown"
  ELSE \E i \in TurnsOfMaxOverlap(word, segs) :
         /\ label = segs[i].speaker
         /\ \A j \in TurnsOfMaxOverlap(word, segs) : i <= j
AssignCalls ==
  {c \in {bench.done[i] : i \in 1..Len(bench.done)} : c.arg.segments # <<>>}

\* C28: a turn that contains the word's midpoint wins, else the turn of maximum
\* overlap, and a tie for the maximum and no overlap at all give "Unknown"; the
\* word [1.0, 2.0] with SPEAKER_00 [0, 1.4] and SPEAKER_01 [1.4, 3.0] gets
\* SPEAKER_01.
C28_SpeakerAssignment ==
  \A c \in AssignCalls :
    /\ AssignedAsClaimed(c.arg.word, c.arg.segments, c.ret)
    /\ c.arg.word = ExampleWord /\ c.arg.segments = ExampleTurns => c.ret = "SPEAKER_01"

\* the same, a tie going to the first of the tied turns
C28_FirstMaximalTurnWins ==
  \A c \in AssignCalls :
    /\ AssignedFirstMax(c.arg.word, c.arg.segments, c.ret)
    /\ c.arg.word = ExampleWord /\ c.arg.segments = ExampleTurns => c.ret = "SPEAKER_01"

\* ------------------------------------------------------------ claim C27
\* the session of s leaves the registry in this step
SessionDestroyed(s) == s \in clients /\ s \notin clients'
\* the watchdogs of s that have not ended and are not cancelled
LiveWatchdogs(s) ==
  {k \in 1..Len(wd[s]) : wd[s][k].pc # "done" /\ ~wd[s][k].must_cancel}
\* a watchdog of s takes a step
SomeWatchdogActs(s) == \E k \in 1..Len(wd[s]) : WatchdogActs(s, k)
\* the step sends nothing and changes no session and no engine
NothingElseChanges ==
  out' = out /\ sess' = sess /\ engineObjs' = engineObjs /\ mapVars' = mapVars

\* C27: the step that destroys a session leaves its buffer empty, its engine's
\* session ended and none of its watchdogs alive, and no watchdog of a
\* destroyed session sends a message or changes any state afterwards.
C27_DestroyedSessionQuiet ==
  [][\A s \in Sessions :
       /\ SessionDestroyed(s) =>
            /\ sess'[s].audio_chunks = <<>> /\ sess'[s].total_samples = 0
            /\ sess[s].active_engine # NoEngine =>
                 ~engineObjs'[sess[s].active_engine].session_active
            /\ LiveWatchdogs(s)' = {}
       /\ s \notin clients /\ SomeWatchdogActs(s) => NothingElseChanges]_vars

\* the last part alone: what a watchdog does after its session was destroyed
C27_WatchdogOfDestroyedInert ==
  [][\A s \in Sessions : s \notin clients /\ SomeWatchdogActs(s) => NothingElseChanges]_vars

\* ------------------------------------------------------------ claim C29
\* the recordings of s started so far: one recording_ready each
RecordingsStarted(s) == Cardinality(Positions(s, "recording_ready"))
\* watchdog k of s was armed for a recording that is not the latest of s
EarlierWatchdog(s, k) == k \in 1..Len(wd[s]) /\ k < RecordingsStarted(s)
\* handle_start of s begins a recording in this step
SessionReused(s) == RecordingsStarted(s)' > RecordingsStarted(s)
\* handle_start of s returns from sending recording_ready in this step
ReadyReturns(s) == hpc[s] = "start_send_ready" /\ hpc'[s] = "idle"

\* C29: when a session begins a further recording every watchdog armed before
\* has ended; a watchdog of an earlier recording takes no step that sends a
\* message or changes the recording flag, buffer or engine session; and when
\* handle_start returns from sending recording_ready the session is recording.
C29_EarlierWatchdogInert ==
  [][\A s \in Sessions :
       /\ SessionReused(s) => \A k \in 1..Len(wd[s]) : wd[s][k].pc = "done"
       /\ \A k \in 1..MaxStarts :
            (EarlierWatchdog(s, k) /\ WatchdogActs(s, k))
              => /\ out'[s] = out[s]
                 /\ RecordingState(s)' = RecordingState(s)
       /\ ReadyReturns(s) => sess'[s].is_recording]_vars

\* the parts of C29, one by one
C29_EarlierWatchdogEnded ==
  [][\A s \in Sessions :
       SessionReused(s) => \A k \in 1..Len(wd[s]) : wd[s][k].pc = "done"]_vars
C29_EarlierWatchdogSilent ==
  [][\A s \in Sessions : \A k \in 1..MaxStarts :
       (EarlierWatchdog(s, k) /\ WatchdogActs(s, k))
         => /\ out'[s] = out[s]
            /\ RecordingState(s)' = RecordingState(s)]_vars
C29_ReadyMeansRecording ==
  [][\A s \in Sessions : ReadyReturns(s) => sess'[s].is_recording]_vars

\* ------------------------------------------------------------ claim C30
\* the tasks queued on lock l
Waiters(l) == {l.waiters[i] : i \in 1..Len(l.waiters)}
\* every task that waits for a session lock or for the pool lock
WaitingTasks == Waiters(mlock) \cup UNION {Waiters(slock[s]) : s \in Sessions}
\* the holders of the locks that task t waits for
WaitsOn(t) ==
  {slock[s].holder : s \in {x \in Sessions : t \in Waiters(slock[x])}}
    \cup (IF t \in Waiters(mlock) THEN {mlock.holder} ELSE {})
\* the largest set of waiting tasks each of which waits for a lock held by a
\* member of the set: none of them is ever resumed
RECURSIVE BlockedForever(_)
BlockedForever(B) ==
  LET B1 == {t \in B : WaitsOn(t) \cap B # {}} IN
  IF B1 = B THEN B ELSE BlockedForever(B1)
\* a task is queued on a lock that it holds
WaitsForOwnLock ==
  \/ mlock.holder \in Waiters(mlock)
  \/ \E s \in Sessions : slock[s].holder \in Waiters(slock[s])
\* the holder of the pool lock is queued on a session lock
WaitsForSessionUnderPool ==
  \E s \in Sessions : mlock.holder \in Waiters(slock[s])
\* a task that holds the pool lock becomes the holder of a session lock
TakesSessionUnderPool ==
  \E s \in Sessions :
    /\ slock'[s].holder # NoTask /\ slock'[s].holder # slock[s].holder
    /\ slock'[s].holder = mlock.holder

\* C30: no task acquires or waits for a session lock while it holds the pool
\* lock, no task waits for a lock that it holds, and no set of tasks is blocked
\* forever on session and pool locks.
C30_NoLockCycle ==
  /\ [](~WaitsForSessionUnderPool /\ ~WaitsForOwnLock
          /\ BlockedForever(WaitingTasks) = {})
  /\ [][~TakesSessionUnderPool]_vars

\* the order of the two scopes alone: the pool lock is the inner one
C30_PoolLockInnermost ==
  []~WaitsForSessionUnderPool /\ [][~TakesSessionUnderPool]_vars
\* every task blocked forever waits for the session lock of a handler that
\* waits for that lock itself
C30_OnlySelfWait ==
  \A t \in BlockedForever(WaitingTasks) :
    \E s \in Sessions : t \in Waiters(slock[s]) /\ ForcedStopBlocked(s)

\* ------------------------------------------------------------ claim C31
\* model m leaves the pool in this step
Unloads(m) == m \in loaded_models /\ m \notin loaded_models'
\* the entry of m is gone and the engine it named is unloaded
EntryRemoved(m) ==
  /\ engines'[m] = NoEngine
  /\ engines[m] # NoEngine => ~engineObjs'[engines[m]].is_loaded
\* the default, when it named m and a model stays loaded, names a loaded model
DefaultFollows(m) ==
  (default_model = m /\ loaded_models' # {}) => default_model' \in loaded_models'

\* C31: a step that unloads a model (eviction by the monitor, clear_cache,
\* shutdown) removes its pool entry, unloads its engine, clears its
\* last-inference record and, when the model was the default and another model
\* stays loaded, leaves the default naming a loaded model.
C31_UnloadClearsEverything ==
  [][\A m \in ValidModels :
       Unloads(m) => /\ EntryRemoved(m)
                     /\ last_inference_time'[m] = None
                     /\ DefaultFollows(m)]_vars

\* C31 without the last-inference record
C31_UnloadRemovesEntry ==
  [][\A m \in ValidModels : Unloads(m) => EntryRemoved(m) /\ DefaultFollows(m)]_vars
\* C31 for the evictions of the monitor alone
C31_EvictionClearsEverything ==
  [][\A m \in ValidModels :
       MonitorUnloads(m) => /\ EntryRemoved(m)
                            /\ last_inference_time'[m] = None
                            /\ DefaultFollows(m)]_vars

\* ------------------------------------------------------------ claim C32
\* one client that records 1.5 s chunks in batch or continuous mode, asks for
\* interval transcriptions and stops, while time passes; no watchdog deadline
\* passes
NextInfer ==
  \/ \E s \in Sessions :
       \/ Len(wd[s]) < MaxStarts
            /\ \E m \in RequestModels, c \in BOOLEAN : RecvStart(s, m, c)
       \/ Len(sess[s].audio_chunks) < MaxChunks /\ RecvAudio(s, PartialChunk)
       \/ Len(out[s]) < MaxInferOut /\ RecvInterval(s)
       \/ Len(out[s]) < MaxInferOut /\ RecvStop(s)
       \/ StartStep(s)
       \/ \E text \in Texts : AudioTranscribed(s, text)
       \/ AudioPartialSent(s)
       \/ \E o \in Outcomes : StopTranscribed(s, o)
       \/ StopFinalSent(s)
       \/ hpc[s] = "interval_transcribing"
            /\ \E r \in EngineResults(engineObjs[sess[s].active_engine]) :
                 IntervalTranscribed(s, r)
       \/ IntervalEmptySent(s)
       \/ IntervalSent(s)
       \/ \E k \in 1..MaxStarts : WatchdogCancelled(s, k)
  \/ Tick

SpecInfer == InitRec /\ [][NextInfer]_vars

\* handle_stop of s returns after a final transcription was asked of the engine
FinalReturns(s) ==
  hpc[s] = "stop_final_send" /\ hpc'[s] = "idle" /\ hloc[s].engine_called
\* handle_transcribe_interval of s returns after a pass over the buffer
IntervalReturns(s) ==
  hpc[s] = "interval_send" /\ hpc'[s] = "idle" /\ hloc[s].engine_called
\* transcribe_incremental of s returns from the executor
IncrementalCompletes(s) ==
  hpc[s] = "audio_transcribing" /\ hpc'[s] # "audio_transcribing"
\* a transcription on the model of s is completed in this step
TranscriptionCompletes(s) ==
  FinalReturns(s) \/ IntervalReturns(s) \/ IncrementalCompletes(s)
\* the step records the present time for the model of s
RecordsInference(s) == last_inference_time'[sess[s].active_model] = now

\* C32: every step that completes a final, interval or incremental
\* transcription records the present time as the last inference of the
\* session's model, and no other step changes a last-inference time.
C32_EveryTranscriptionRecorded ==
  [][/\ \A s \in Sessions : TranscriptionCompletes(s) => RecordsInference(s)
     /\ last_inference_time' # last_inference_time
          => \E s \in Sessions : TranscriptionCompletes(s)]_vars

\* the parts of C32, one by one
C32_FinalAndIntervalRecorded ==
  [][\A s \in Sessions :
       FinalReturns(s) \/ IntervalReturns(s) => RecordsInference(s)]_vars
C32_IncrementalRecorded ==
  [][\A s \in Sessions : IncrementalCompletes(s) => RecordsInference(s)]_vars
C32_OnlyTranscriptionsRecorded ==
  [][last_inference_time' # last_inference_time
       => \E s \in Sessions : TranscriptionCompletes(s)]_vars

\* ------------------------------------------------------------ claim C33
\* an id that is no model of the server
UnknownModel == "unknown-model"
KeepLists == {<<>>, <<UnknownModel, "base">>, <<"base", MODEL_PARAKEET>>}

\* client 1 sets keep-warm lists, with an unknown id, a Whisper model and
\* Parakeet, while client 2 switches keep-warm off and clears the Parakeet
\* cache; the loads succeed or fail; no time passes, so that the monitor evicts
\* nothing
NextKeep ==
  \/ Len(out[1]) < MaxKeepOut
       /\ \E l \in KeepLists, d \in {"4h", "permanent"} : RecvSetKeepWarm(1, l, d)
  \/ Len(out[2]) < MaxOffOut /\ RecvSetKeepWarm(2, <<>>, "4h")
  \/ Len(out[2]) < MaxOffOut /\ RecvClearCache(2)
  \/ \E s \in Sessions :
       \/ ClearCacheGotLock(s)
       \/ WarmGotLock(s)
       \/ \E ok \in BOOLEAN : WarmLoadDone(s, ok)
       \/ WarmSent(s)
       \/ WarmJoined(s)
       \/ ReplySent(s)
  \/ \E i \in Tasks : MonitorWake(i, UnloadReturns)
  \/ MonitorCancelled

SpecKeep == InitStart /\ [][NextKeep]_vars

\* the positions of a handler inside handle_set_keep_warm
WarmPcs == {"warm_mlock", "warm_loading", "warm_sent", "warm_join", "warm_joined"}
\* the set of the ids of a list
IdsOf(l) == {l[i] : i \in 1..Len(l)}
\* the ids of a list from the first that the eager-load loop does not skip
RECURSIVE FromFirstLoadable(_)
FromFirstLoadable(l) ==
  IF l = <<>> \/ ~Skippable(Head(l)) THEN l ELSE FromFirstLoadable(Tail(l))
\* handle_set_keep_warm of s sends its last message in this step
WarmEnds(s) ==
  /\ hpc[s] \in WarmPcs \cup {"idle"} /\ hpc'[s] = "reply_send"
  /\ LastOut(s)'.type = "keep_warm_updated"
\* the handler of s goes on with the ids l that follow the one it has dealt with
GoesOnWith(s, l) ==
  LET rest == FromFirstLoadable(l) IN
  \/ rest = <<>> /\ WarmEnds(s)
  \/ rest # <<>> /\ hpc'[s] = "warm_loading" /\ hloc'[s].todo = rest
  \/ /\ hpc'[s] = "warm_mlock"
     /\ \E k \in 1..Len(l) :
          /\ hloc'[s].todo = SubSeq(l, k, Len(l))
          /\ \A i \in 1..(k - 1) : Skippable(l[i])
\* a model_loaded message is sent to s by handle_set_keep_warm in this step
WarmAnnounces(s, m) ==
  /\ hpc[s] \in WarmPcs /\ Len(out'[s]) = Len(out[s]) + 1
  /\ LastOut(s)' = Msg("model_loaded", m)

RoomToNotify == \A s \in Sessions : Len(out[s]) < MaxUnloadOut
NextUnload ==
  \/ Len(out[1]) < MaxUnloadOut
       /\ \E l \in {<<>>, <<"base">>, <<MODEL_PARAKEET>>} : RecvSetKeepWarm(1, l, "4h")
  \/ \E s \in Sessions :
       \/ \E ok \in BOOLEAN : WarmLoadDone(s, ok)
       \/ WarmSent(s)
       \/ WarmJoined(s)
       \/ ReplySent(s)
       \/ hpc[s] = "idle" /\ ClientCloses(s)
       \/ HandlerEnds(s)
  \/ \E i \in Tasks, o \in UnloadOutcomes : RoomToNotify /\ MonitorWake(i, o)
  \/ \E i \in Tasks, o \in UnloadOutcomes : RoomToNotify /\ MonitorGotLock(i, o)
  \/ \E i \in Tasks, o \in UnloadOutcomes : RoomToNotify /\ MonitorNotified(i, o)
  \/ MonitorCancelled
  \/ TimePasses(TimeStep)

SpecUnload == InitStart /\ [][NextUnload]_vars

\* a monitor task removes model m from the pool in this step
MonitorEvicts(m) == Unloads(m) /\ (kw' # kw \/ lost' # lost)
\* model_unloaded{m} is sent to client s in this step
UnloadedSentTo(s, m) ==
  /\ Len(out'[s]) = Len(out[s]) + 1
  /\ LastOut(s)' = Msg("model_unloaded", m)

\* C34: a step of the monitor that removes a model from the pool sends
\* model_unloaded for it to every connected client, and a step that sends
\* model_unloaded for a model leaves that model out of the pool, also when the
\* engine's unload raises.
C34_EvictionAnnounced ==
  [][\A m \in ValidModels :
       /\ MonitorEvicts(m) => \A s \in clients : UnloadedSentTo(s, m)
       /\ (\E s \in Sessions : UnloadedSentTo(s, m))
            => m \notin loaded_models' /\ engines'[m] = NoEngine]_vars

\* the parts of C34, one by one
C34_EvictionNotifiesAll ==
  [][\A m \in ValidModels :
       MonitorEvicts(m) => \A s \in clients : UnloadedSentTo(s, m)]_vars
C34_AnnouncedOnlyWhenRemoved ==
  [][\A m \in ValidModels :
       (\E s \in Sessions : UnloadedSentTo(s, m))
         => m \notin loaded_models' /\ engines'[m] = NoEngine]_vars

\* ------------------------------------------------------------ claim C35
MaxBindOut == 4
MaxClearOut == 1

\* client 1 starts recordings on Parakeet, with and without diarization, in
\* batch or continuous mode, and sends 1.5 s chunks; client 2 sends clear_cache;
\* no watchdog deadline passes
NextBind ==
  \/ Len(wd[1]) < MaxStarts /\ Len(out[1]) < MaxBindOut
       /\ \E c \in BOOLEAN : RecvStart(1, MODEL_PARAKEET, c)
  \/ Len(wd[1]) < MaxStarts /\ Len(out[1]) < MaxBindOut
       /\ \E c \in BOOLEAN : RecvStartDiarized(1, MODEL_PARAKEET, c)
  \/ Len(sess[1].audio_chunks) < MaxChunks /\ RecvAudio(1, PartialChunk)
  \/ \E text \in Texts : AudioTranscribed(1, text)
  \/ AudioPartialSent(1)
  \/ StartStep(1)
  \/ StartGotModelLock(1)
  \/ \E ok \in BOOLEAN : StartDiarizationLoaded(1, ok)
  \/ \E k \in 1..MaxStarts : WatchdogCancelled(1, k)
  \/ Len(out[2]) < MaxClearOut /\ RecvClearCache(2)
  \/ ClearCacheGotLock(2)

SpecBind == InitStart /\ [][NextBind]_vars

\* this step sends recording_ready to s
ReadySentTo(s) ==
  /\ Len(out'[s]) = Len(out[s]) + 1
  /\ LastOut(s)'.type = "recording_ready"

\* the state of s that a successful start leaves, for the model m
StartedOn(s, m) ==
  LET e == sess[s].active_engine IN
  /\ sess[s].is_recording
  /\ sess[s].audio_chunks = <<>> /\ sess[s].total_samples = 0
  /\ sess[s].active_model = m
  /\ e # NoEngine /\ e = engines[m] /\ m \in loaded_models
  /\ engineObjs[e].is_loaded
  /\ engineObjs[e].session_active /\ engineObjs[e].last_transcription = ""
  /\ sess[s].last_partial_text = "" /\ ~sess[s].has_done_first_interval
  /\ LastOut(s) = Msg("recording_ready", m)

\* C35: when a start request succeeds (recording_ready is sent), the session is
\* recording with an empty buffer, is bound to the engine of the requested
\* model, which is in the pool and loaded, its first-interval flag and last
\* partial text are reset, start_session was called on the engine and the
\* client was sent recording_ready{model}; also when the session was recording
\* before (the earlier buffer is discarded).
C35_StartPostcondition ==
  [][\A s \in Sessions : ReadySentTo(s) => StartedOn(s, hloc[s].model)']_vars

\* C35, for the starts that do not wait for the diarization model
C35_StartWithoutLoadPostcondition ==
  [][\A s \in Sessions :
       ReadySentTo(s) /\ hpc[s] # "start_diar_loading"
         => StartedOn(s, hloc[s].model)']_vars

\* C35, what holds of every start: the session is recording with an empty
\* buffer and reset flags, bound to the engine object that the pool held for
\* the model when the handler read it
C35_StartResetsSession ==
  [][\A s \in Sessions :
       ReadySentTo(s) =>
         /\ sess'[s].is_recording /\ sess'[s].audio_chunks = <<>>
         /\ sess'[s].active_model = hloc'[s].model
         /\ sess'[s].active_engine # NoEngine
         /\ engineObjs'[sess'[s].active_engine].model = hloc'[s].model
         /\ engineObjs'[sess'[s].active_engine].session_active
         /\ sess'[s].last_partial_text = "" /\ ~sess'[s].has_done_first_interval
         /\ LastOut(s)' = Msg("recording_ready", hloc'[s].model)]_vars

\* a start that succeeds on a session that was recording with audio in its
\* buffer and a partial text sent
C35_RestartWitness ==
  /\ hpc[1] = "start_send_ready" /\ Len(wd[1]) = 1
  /\ StartedOn(1, MODEL_PARAKEET)
  /\ \E i \in 1..Len(out[1]) : out[1][i].type = "partial"

\* ------------------------------------------------------------ claim C36
MaxWords == 3

\* the labels that assign_speakers_to_words gives to words
Labels == Speakers \cup {"Unknown"}
\* the order of str on these labels: "SPEAKER_00" < "SPEAKER_01" < "Unknown"
LabelRank(l) ==
  CASE l = "SPEAKER_00" -> 1 [] l = "SPEAKER_01" -> 2 [] l = "Unknown" -> 3
\* f"Speaker {i}"
SpeakerName(i) ==
  CASE i = 1 -> "Speaker 1" [] i = 2 -> "Speaker 2" [] i = 3 -> "Speaker 3"

ElementsOf(q) == {q[i] : i \in 1..Len(q)}
FirstSeen(l, q) == CHOOSE i \in 1..Len(q) : q[i] = l /\ \A j \in 1..(i - 1) : q[j] # l

\* the index that an enumeration in the order of first appearance gives to l
FirstSeenIndex(l, speakers) ==
  Cardinality({k \in ElementsOf(speakers) : FirstSeen(k, speakers) < FirstSeen(l, speakers)})
\* the index that enumerate(sorted(set(speakers))) gives to the label l
SortedIndex(l, speakers) ==
  Cardinality({k \in ElementsOf(speakers) : LabelRank(k) < LabelRank(l)})

\* diarization_engine.format_speakers(speakers): label -> friendly name
format_speakers(speakers) ==
  [l \in ElementsOf(speakers) |-> SpeakerName(SortedIndex(l, speakers) + 1)]

\* the pieces that a text is joined from: f"{speaker}: ", word + " ", "\n", and
\* a word without its space
Piece(kind, text) == [kind |-> kind, text |-> text]
NewLine == Piece("newline", "\n")

\* the loop of _format_with_speakers over words, current_speaker being current
RECURSIVE FormatLoop(_, _)
FormatLoop(words, current) ==
  IF words = <<>> THEN <<>>
  ELSE LET w == Head(words)
           head == IF w.speaker = current THEN <<>>
                   ELSE IF current = NoSpeaker THEN <<Piece("speaker", w.speaker)>>
                   ELSE <<NewLine, Piece("speaker", w.speaker)>>
       IN head \o <<Piece("word ", w.word)>> \o FormatLoop(Tail(words), w.speaker)

\* str.strip() of joined pieces that end with word + " "
Strip(pieces) ==
  IF pieces = <<>> THEN pieces
  ELSE [pieces EXCEPT ![Len(pieces)] =
          IF @.kind = "word " THEN Piece("word", @.text) ELSE @]

\* MuteServer._format_with_speakers(words)
FormatWithSpeakers(words) == Strip(FormatLoop(words, NoSpeaker))

\* " ".join(w["word"] for w in words).strip()
JoinedWords(words) ==
  [i \in 1..Len(words) |->
     Piece(IF i < Len(words) THEN "word " ELSE "word", words[i].word)]

\* lines 844-856 of handle_transcribe_interval on words that carry raw labels:
\* the label map, the words renamed, and the text of the interval
DiarizedText(words) ==
  LET raw_speakers == [i \in 1..Len(words) |-> words[i].speaker]
      speaker_map == format_speakers(raw_speakers)
      named == [i \in 1..Len(words) |->
                  [words[i] EXCEPT !.speaker = speaker_map[words[i].speaker]]]
      speakers == {named[i].speaker : i \in 1..Len(named)}
  IN [speaker_map |-> speaker_map,
      text |-> IF Cardinality(speakers) > 1 THEN FormatWithSpeakers(named)
               ELSE JoinedWords(named)]

DiarizedTextCall ==
  /\ NextCallIs("diarized_text")
  /\ CallMade(DiarizedText(Head(bench.todo).arg))
  /\ UNCHANGED <<sess, benchFrame>>

LabelledWords == [word : {"a", "b"}, speaker : Labels]
LabelledLists == UNION {[1..n -> LabelledWords] : n \in 1..MaxWords}

\* one formatting of every list of up to MaxWords labelled words
InitFormat == InitCalls({<<Call("diarized_text", W)>> : W \in LabelledLists})
NextFormat == DiarizedTextCall
SpecFormat == InitFormat /\ [][NextFormat]_vars

FormatCalls == {bench.done[i] : i \in 1..Len(bench.done)}
LabelsIn(W) == {W[i].speaker : i \in 1..Len(W)}
OrdinalOf(name) == CHOOSE i \in 1..Cardinality(Labels) : SpeakerName(i) = name
FirstWordOf(l, W) == CHOOSE i \in 1..Len(W) : W[i].speaker = l /\ \A j \in 1..(i - 1) : W[j].speaker # l

\* the names given to the labels of W are Speaker 1 .. Speaker k, one each
OrdinalNames(W, map) ==
  /\ DOMAIN map = LabelsIn(W)
  /\ {map[l] : l \in LabelsIn(W)} = {SpeakerName(i) : i \in 1..Cardinality(LabelsIn(W))}

\* the maximal runs of consecutive words of one speaker
RECURSIVE Runs(_)
Runs(W) ==
  IF W = <<>> THEN <<>>
  ELSE LET rest == Runs(Tail(W)) IN
       IF rest # <<>> /\ Head(rest)[1].speaker = Head(W).speaker
       THEN <<(<<Head(W)>> \o Head(rest))>> \o Tail(rest)
       ELSE <<(<<Head(W)>>)>> \o rest

\* one paragraph: the speaker's name, then the words of the run
Paragraph(run, map, last) ==
  <<Piece("speaker", map[run[1].speaker])>>
    \o [i \in 1..Len(run) |->
          Piece(IF last /\ i = Len(run) THEN "word" ELSE "word ", run[i].word)]
RECURSIVE Paragraphs(_, _)
Paragraphs(runs, map) ==
  IF Len(runs) = 1 THEN Paragraph(runs[1], map, TRUE)
  ELSE Paragraph(runs[1], map, FALSE) \o <<NewLine>> \o Paragraphs(Tail(runs), map)

\* with more than one speaker the text is one paragraph per run
GroupedByTurn(c) ==
  Cardinality(LabelsIn(c.arg)) > 1 => c.ret.text = Paragraphs(Runs(c.arg), c.ret.speaker_map)

\* C36 as stated: the names Speaker 1, Speaker 2, ... are given in the order in
\* which the labels first appear in the word sequence, and with more than one
\* speaker consecutive words of one speaker form one paragraph that begins with
\* the speaker's name.
C36_FirstSeenOrder ==
  \A c \in FormatCalls :
    /\ OrdinalNames(c.arg, c.ret.speaker_map)
    /\ \A k, l \in LabelsIn(c.arg) :
         FirstWordOf(k, c.arg) < FirstWordOf(l, c.arg)
           => OrdinalOf(c.ret.speaker_map[k]) < OrdinalOf(c.ret.speaker_map[l])
    /\ GroupedByTurn(c)

\* C36, amended: the names Speaker 1, Speaker 2, ... are given in the sorted
\* order of the distinct labels, whatever the order in which they appear, and
\* with more than one speaker consecutive words of one speaker form one
\* paragraph that begins with the speaker's name.
C36_SortedOrder ==
  \A c \in FormatCalls :
    /\ OrdinalNames(c.arg, c.ret.speaker_map)
    /\ \A k, l \in LabelsIn(c.arg) :
         LabelRank(k) < LabelRank(l)
           => OrdinalOf(c.ret.speaker_map[k]) < OrdinalOf(c.ret.speaker_map[l])
    /\ GroupedByTurn(c)

\* two words of SPEAKER_01 then one of SPEAKER_00: SPEAKER_01 is Speaker 2 and
\* its two words are one paragraph
C36_Witness ==
  \E c \in FormatCalls :
    /\ c.arg = <<[word |-> "a", speaker |-> "SPEAKER_01"],
                 [word |-> "b", speaker |-> "SPEAKER_01"],
                 [word |-> "a", speaker |-> "SPEAKER_00"]>>
    /\ c.ret.speaker_map["SPEAKER_01"] = "Speaker 2"
    /\ c.ret.text = <<Piece("speaker", "Speaker 2"), Piece("word ", "a"),
                      Piece("word ", "b"), NewLine,
                      Piece("speaker", "Speaker 1"), Piece("word", "a")>>

\* ------------------------------------------------------------ claim C37
\* this step sends a partial to s
PartialSentTo(s) ==
  /\ Len(out'[s]) = Len(out[s]) + 1
  /\ LastOut(s)'.type = "partial"

\* the partials sent to s in its present recording: those after the last
\* recording_ready
PartialsOfRecording(s) ==
  {i \in 1..Len(out[s]) :
     /\ out[s][i].type = "partial"
     /\ \A j \in (i + 1)..Len(out[s]) : out[s][j].type # "recording_ready"}
\* the text of the last of them, "" when there is none
LastPartialSent(s) ==
  IF PartialsOfRecording(s) = {} THEN ""
  ELSE out[s][CHOOSE i \in PartialsOfRecording(s) :
                \A j \in PartialsOfRecording(s) : j <= i].arg

\* C37: a partial is sent only in continuous mode, when transcribe_incremental
\* returns, with a text that is not empty and differs from the last partial
\* text sent in the same recording: two consecutive partials of one recording
\* never carry the same text.
C37_PartialOnlyWhenChanged ==
  [][\A s \in Sessions :
       PartialSentTo(s) =>
         /\ IncrementalCompletes(s)
         /\ sess[s].continuous_mode
         /\ LastOut(s)'.arg # ""
         /\ LastOut(s)'.arg # LastPartialSent(s)
         /\ sess[s].last_partial_text = LastPartialSent(s)
         /\ sess'[s].last_partial_text = LastOut(s)'.arg]_vars

\* no partial is sent when the text is empty or the one sent last
C37_UnchangedTextNotSent ==
  [][\A s \in Sessions :
       IncrementalCompletes(s) /\ Len(out'[s]) = Len(out[s])
         => LET e == sess[s].active_engine IN
            \/ engineObjs'[e].last_transcription = ""
            \/ engineObjs'[e].last_transcription = LastPartialSent(s)]_vars

\* the second recording of session 1 sent the partial "a" that the first had
\* sent, once, and its second transcription sent nothing
C37_Witness ==
  /\ hpc[1] = "idle" /\ sess[1].is_recording /\ sess[1].continuous_mode
  /\ Len(sess[1].audio_chunks) = 2 /\ sess[1].last_partial_text = "a"
  /\ Cardinality(PartialsOfRecording(1)) = 1
  /\ \E i, j, k \in 1..Len(out[1]) :
       /\ i < j /\ j < k
       /\ out[1][i] = Msg("partial", "a")
       /\ out[1][j].type = "recording_ready"
       /\ out[1][k] = Msg("partial", "a")

\* ------------------------------------------------------------ claim C38
MaxPoolOut == 3

\* client 1 pins "base" or Parakeet for four hours or switches keep-warm off;
\* client 2 sends clear_cache; hours pass and the monitor evicts; the process
\* may be signalled to terminate; a load may fail, and an engine's unload
\* returns or raises wherever it is called
NextPool ==
  \/ Len(out[1]) < MaxPoolOut
       /\ \E l \in {<<>>, <<"base">>, <<MODEL_PARAKEET>>} : RecvSetKeepWarm(1, l, "4h")
  \/ Len(out[2]) < MaxClearOut /\ RecvClearCache(2)
  \/ Len(out[2]) < MaxClearOut
       /\ \E o \in UnloadOutcomes \ {UnloadReturns} : RecvClearCacheRaising(2, o)
  \/ ClearCacheGotLock(2)
  \/ \E o \in UnloadOutcomes \ {UnloadReturns} : ClearCacheGotLockRaising(2, o)
  \/ DispatchErrorSent(2)
  \/ \E s \in Sessions :
       \/ \E ok \in BOOLEAN : WarmLoadDone(s, ok)
       \/ WarmSent(s)
       \/ WarmJoined(s)
       \/ ReplySent(s)
       \/ HandlerEnds(s)
  \/ \E i \in Tasks, o \in UnloadOutcomes :
       (\A s \in Sessions : Len(out[s]) < MaxPoolOut) /\ MonitorWake(i, o)
  \/ \E i \in Tasks, o \in UnloadOutcomes :
       (\A s \in Sessions : Len(out[s]) < MaxPoolOut) /\ MonitorGotLock(i, o)
  \/ \E i \in Tasks, o \in UnloadOutcomes :
       (\A s \in Sessions : Len(out[s]) < MaxPoolOut) /\ MonitorNotified(i, o)
  \/ MonitorCancelled
  \/ TimePasses(TimeStep)
  \/ Signal
  \/ \E O \in [ValidModels -> UnloadOutcomes] : ShutdownStartsWith(O)
  \/ \E O \in [ValidModels -> UnloadOutcomes] : ShutdownMonitorJoinedWith(O)
  \/ \E O \in [ValidModels -> UnloadOutcomes] : ShutdownCloseReturnedWith(O)
  \/ \E O \in [ValidModels -> UnloadOutcomes] : ShutdownGotModelLockWith(O)
  \/ ShutdownServerClosed

SpecPool == InitStart /\ [][NextPool]_vars

\* the keys of MuteServer.engines
EngineKeys == {m \in ValidModels : engines[m] # NoEngine}

\* C38: in every reachable state the keys of the engine map are the loaded
\* model ids, also after failed loads, failed unloads, eviction, clear_cache
\* and shutdown.
C38_EnginesAreLoadedModels == EngineKeys = loaded_models

\* the shutdown has completed after the unload of "base" raised: "base" is
\* still a key of the engine map and a loaded model
C38_Witness ==
  /\ sd.pc = "done"
  /\ loaded_models = {"base"} /\ EngineKeys = {"base"}
  /\ ~engineObjs[engines["base"]].is_loaded

\* ------------------------------------------------------------ claim C39
\* this step sends nothing to s, calls no engine, and leaves the buffer of s,
\* its recording, first-interval and first-audio flags and its engine as they are
LeavesAlone(s) ==
  /\ out'[s] = out[s]
  /\ engineObjs' = engineObjs
  /\ ~hloc'[s].engine_called
  /\ sess'[s].audio_chunks = sess[s].audio_chunks
  /\ sess'[s].total_samples = sess[s].total_samples
  /\ sess'[s].is_recording = sess[s].is_recording
  /\ sess'[s].has_done_first_interval = sess[s].has_done_first_interval
  /\ sess'[s].first_audio_received = sess[s].first_audio_received
  /\ sess'[s].active_engine = sess[s].active_engine
  /\ sess'[s].active_model = sess[s].active_model

\* C39: on a session that is not recording, audio, stop and transcribe_interval
\* are ignored: the handler sends no reply, calls no engine, leaves the
\* session's buffer, recording flag, first-interval flag, first-audio flag and
\* engine binding unchanged, and returns.
C39_IgnoredWhenNotRecording ==
  [][\A s \in Sessions :
       ~sess[s].is_recording =>
         /\ (\E n \in {SmallChunk, PartialChunk, BigChunk} : RecvAudio(s, n))
              => LeavesAlone(s) /\ hpc'[s] = "idle"
         /\ RecvStop(s) \/ StopGotSessionLock(s)
              => LeavesAlone(s) /\ hpc'[s] \in {"idle", "stop_slock"}
         /\ RecvInterval(s) \/ IntervalGotSessionLock(s)
              => LeavesAlone(s) /\ hpc'[s] \in {"idle", "interval_slock"}]_vars

\* session 1 kept its engine and its flags after its recording ended, and a stop
\* that found it not recording has cancelled its last watchdog and sent nothing
C39_Witness ==
  /\ hpc[1] = "idle" /\ 1 \in clients \ closed
  /\ ~sess[1].is_recording /\ sess[1].active_engine # NoEngine
  /\ ~sess[1].first_audio_received
  /\ Len(wd[1]) = 2 /\ wd[1][1].pc = "done"
  /\ wd[1][2].pc = "sleep" /\ wd[1][2].must_cancel
  /\ \A i \in 1..Len(out[1]) : out[1][i].type \notin {"final", "interval_transcription"}

\* ------------------------------------------------------------ claim C40
MaxQuitOut == 3

\* the positions of a handler inside websocket.send with no lock held and no
\* handler of its own for the exception
SendPcs == {"download_sent", "warm_sent", "reply_send"}
\* websocket.send raises ConnectionClosed on a connection that has been closed:
\* the model_error send of handle_download_model's except clause raises as
\* well, the exception leaves the handler, send_error fails silently
\* (main.py 1201-1209), and handle_message returns
SendRaises(s) ==
  /\ hpc[s] \in SendPcs /\ s \in closed
  /\ hpc' = [hpc EXCEPT ![s] = "idle"]
  /\ hloc' = [hloc EXCEPT ![s] = NoLocals]
  /\ UNCHANGED <<recVars, out, poolVars, last_inference_time, now, clientVars, warmVars>>

\* the process is signalled to terminate while client 1 downloads Parakeet,
\* which loads it, and client 2 pins "base" and Parakeet; a send returns only
\* on a connection that is open
NextQuit ==
  \/ Len(out[1]) < MaxQuitOut /\ RecvDownload(1)
  \/ Len(out[2]) < MaxQuitOut /\ RecvSetKeepWarm(2, <<"base", MODEL_PARAKEET>>, "4h")
  \/ \E s \in Sessions :
       \/ \E ok \in BOOLEAN : DownloadDone(s, ok)
       \/ s \notin closed /\ DownloadSent(s)
       \/ \E ok \in BOOLEAN : DownloadLoadDone(s, ok)
       \/ \E ok \in BOOLEAN : WarmLoadDone(s, ok)
       \/ s \notin closed /\ WarmSent(s)
       \/ s \notin closed /\ ReplySent(s)
       \/ SendRaises(s)
       \/ HandlerEnds(s)
  \/ \E i \in Tasks : MonitorWake(i, UnloadReturns)
  \/ MonitorCancelled
  \/ Signal
  \/ ShutdownStarts
  \/ ShutdownMonitorJoined
  \/ ShutdownCloseReturned
  \/ ShutdownGotModelLock
  \/ ShutdownServerClosed

SpecQuit == InitLoad /\ [][NextQuit]_vars

\* shutdown() has returned
ShutdownCompleted == sd.pc = "done"
\* the pool holds a loaded engine
PoolLoaded == loaded_models # {} \/ EngineKeys # {}

\* C40: when shutdown has completed, no session is recording, no session or
\* client is registered, and the pool holds no loaded engine, also when start,
\* load_model or set_keep_warm handlers were in flight when shutdown began.
C40_ShutdownLeavesNothing ==
  ShutdownCompleted =>
    /\ \A s \in Sessions : ~sess[s].is_recording
    /\ clients = {}
    /\ ~PoolLoaded

\* the parts of C40 about the sessions and the registry
C40_ShutdownLeavesNoSession ==
  ShutdownCompleted => clients = {} /\ \A s \in Sessions : ~sess[s].is_recording

\* shutdown unloads every model that is loaded when it takes the model lock
C40_ShutdownUnloadsWhatIsLoaded ==
  [][sd.pc # "wait_closed" /\ sd'.pc = "wait_closed" => ~PoolLoaded']_vars

\* the shutdown has completed with no handler in flight and nothing is left
C40_CleanShutdown ==
  /\ ShutdownCompleted /\ ~PoolLoaded /\ clients = {}
  /\ \E e \in 1..Len(engineObjs) : ~engineObjs[e].is_loaded
====
